---------------------------- MODULE Spec2Model ----------------------------
(***************************************************************************)
(* fmty: lazily rendered Display combinators.                              *)
(*                                                                         *)
(* A renderable is a value; rendering it (Display::fmt) writes fragments   *)
(* into a sink.  The model is a call-stack machine: one frame per active   *)
(* fmt call, one action per Display impl, one step per fragment written    *)
(* or child call made.  Text is UTF-8: a str is a sequence of bytes, a     *)
(* char is a code point.                                                   *)
(***************************************************************************)
EXTENDS Integers, Sequences, FiniteSets, TLC

VARIABLES
    prog,    \* the value under render (shared, immutable handle)
    once,    \* Once::value of the single-use slot inside prog: Option<I>
    counter, \* the Cell<i32> a counting closure inside prog reads and sets
    copy,    \* the slot of prog.clone(), once made (a second wrapper)
    target,  \* the wrapper the render in progress was called on
    stack,   \* call stack of active Display::fmt calls, innermost last
    sinks,   \* the sinks alive during the render; sinks[1] is the caller's
    ret,     \* Result handed from a returned fmt call to its caller
    log,     \* history: calls made on the caller's sink in this render
    wlog,    \* history: calls made on truncation Writers in this render
    takes,   \* history: Once::take calls, in order, with what each got
    outs,    \* history: text and Result of each finished top-level render
    copy_takes, \* history: as takes, for the slot of the clone
    copy_outs,  \* history: as outs, for the renders of the clone
    inner_outs  \* history: as outs, for direct renders of a nested wrapper

vars ==
    <<prog, once, counter, copy, target, stack, sinks, ret, log, wlog, takes,
      outs, copy_takes, copy_outs, inner_outs>>

(***************************************************************************)
(* Bounds of the model.                                                    *)
(***************************************************************************)
MaxItems == 2       \* items of an iterator or tuple
MaxLen == 3         \* `len` of truncate_chars (besides usize::MAX)
MaxN == 3           \* `n` of repeat
MaxRenders == 2     \* top-level render calls on the one value
MaxArgs == 13       \* arguments of concat!
MaxWrites == 3      \* writes in which one text is delivered to a Writer

\* usize::MAX, at the width of TLC's integers
UsizeMax == 2147483647
\* the longest tuple with a Display impl: impl_tuple!(T0, .., T11)
TupleMax == 12

Min(a, b) == IF a < b THEN a ELSE b

(***************************************************************************)
(* UTF-8 (core::char::encode_utf8, core::str::char_indices).               *)
(***************************************************************************)
EncodeUtf8(c) ==
    IF c < 128 THEN <<c>>
    ELSE IF c < 2048 THEN <<192 + (c \div 64), 128 + (c % 64)>>
    ELSE IF c < 65536 THEN
        <<224 + (c \div 4096), 128 + ((c \div 64) % 64), 128 + (c % 64)>>
    ELSE <<240 + (c \div 262144), 128 + ((c \div 4096) % 64),
           128 + ((c \div 64) % 64), 128 + (c % 64)>>

RECURSIVE Utf8(_)
\* the str holding the chars t
Utf8(t) == IF t = <<>> THEN <<>> ELSE EncodeUtf8(Head(t)) \o Utf8(Tail(t))

\* width of the encoded char that starts with byte b
Utf8CharWidth(b) ==
    IF b < 128 THEN 1 ELSE IF b < 224 THEN 2 ELSE IF b < 240 THEN 3 ELSE 4

\* the char whose encoding is b (one char, as str::chars() decodes it)
DecodeUtf8(b) ==
    IF Len(b) = 1 THEN b[1]
    ELSE IF Len(b) = 2 THEN (b[1] - 192) * 64 + (b[2] - 128)
    ELSE IF Len(b) = 3
    THEN (b[1] - 224) * 4096 + (b[2] - 128) * 64 + (b[3] - 128)
    ELSE (b[1] - 240) * 262144 + (b[2] - 128) * 4096 + (b[3] - 128) * 64
            + (b[4] - 128)

\* char::to_ascii_uppercase, char::to_ascii_lowercase
ToAsciiUppercase(c) == IF c >= 97 /\ c <= 122 THEN c - 32 ELSE c
ToAsciiLowercase(c) == IF c >= 65 /\ c <= 90 THEN c + 32 ELSE c

\* char::to_lowercase, on the characters the model uses: the lowercase
\* mapping of the Unicode character database, one or two chars ('İ' gives
\* 'i' and the combining dot above; 'Σ' gives 'σ' wherever it stands)
CharToLowercase(c) ==
    IF c >= 65 /\ c <= 90 THEN <<c + 32>>
    ELSE IF c = 931 THEN <<963>>
    ELSE IF c = 304 THEN <<105, 775>>
    ELSE <<c>>

\* the properties Cased and Case_Ignorable, on the characters the model uses
Cased(c) ==
    \/ c >= 65 /\ c <= 90
    \/ c >= 97 /\ c <= 122
    \/ c \in {304, 931, 962, 963}
CaseIgnorable(c) == c \in {39, 46, 775}

RECURSIVE StrChars(_)
\* s.chars(): the code points of a str
StrChars(s) ==
    IF s = <<>> THEN <<>>
    ELSE LET w == Utf8CharWidth(s[1])
         IN  <<DecodeUtf8(SubSeq(s, 1, w))>> \o StrChars(SubSeq(s, w + 1, Len(s)))

RECURSIVE CaseIgnorableThenCased(_)
\* iter.skip_while(Case_Ignorable).next() is a Cased char
CaseIgnorableThenCased(cs) ==
    IF cs = <<>> THEN FALSE
    ELSE IF CaseIgnorable(Head(cs)) THEN CaseIgnorableThenCased(Tail(cs))
    ELSE Cased(Head(cs))

Reversed(cs) == [j \in 1..Len(cs) |-> cs[Len(cs) + 1 - j]]

\* str::to_lowercase of the chars cs: char by char, but 'Σ' is 'ς' when it
\* ends a word (a cased letter before it, none after it) and 'σ' otherwise
StrToLowercaseChars(cs) ==
    [j \in 1..Len(cs) |->
        IF cs[j] = 931
        THEN IF /\ CaseIgnorableThenCased(Reversed(SubSeq(cs, 1, j - 1)))
                /\ ~CaseIgnorableThenCased(SubSeq(cs, j + 1, Len(cs)))
             THEN <<962>> ELSE <<963>>
        ELSE CharToLowercase(cs[j])]

RECURSIVE ConcatSeqs(_)
ConcatSeqs(ss) == IF ss = <<>> THEN <<>> ELSE Head(ss) \o ConcatSeqs(Tail(ss))

\* str::to_lowercase
StrToLowercase(s) == Utf8(ConcatSeqs(StrToLowercaseChars(StrChars(s))))

RECURSIVE CharIndicesFrom(_, _)
CharIndicesFrom(s, off) ==
    IF off >= Len(s) THEN <<>>
    ELSE <<off>> \o CharIndicesFrom(s, off + Utf8CharWidth(s[off + 1]))

\* slip: s.bytes().enumerate() for s.char_indices(), bytes counted as chars
ByteIndices(s) == [j \in 1..Len(s) |-> j - 1]

\* s.char_indices(): the byte offset at which each char of s starts
CharIndices(s) == CharIndicesFrom(s, 0)

(***************************************************************************)
(* Renderable values.                                                      *)
(***************************************************************************)
Str(s) == [k |-> "str", s |-> s]
Chr(c) == [k |-> "char", c |-> c]
\* an iterator item whose production renders the wrapper it sits in:
\* iter::from_fn(|| Some(format!("X{rc}"))) of concat_once_cycle
Cyc(s) == [k |-> "cyc", s |-> s]

infix(left, value, right) ==
    [k |-> "infix", value |-> value, left |-> left, right |-> right]
quote_double(value) == infix(Chr(34), value, Chr(34))
RECURSIVE Itoa(_)
\* Display for i32 (n >= 0): the decimal digits, in one write_str
Itoa(n) == IF n < 10 THEN <<48 + n>> ELSE Itoa(n \div 10) \o <<48 + (n % 10)>>
I32(n) == Str(Itoa(n))

\* closures F: Fn() -> R.  Constant(v) is `|| v`; Counting is the closure
\* that returns the Cell's value and sets the Cell to that plus one
Constant(value) == [fn |-> "constant", value |-> value]
Counting == [fn |-> "counting"]
\* Option<R> as a closure F: Fn() -> Option<R> returns it
NoValue == [some |-> FALSE, value |-> Str(<<>>)]
SomeValue(value) == [some |-> TRUE, value |-> value]
\* the counting closure of cond_with_option: Some(the Cell's value)
CountingSome == [fn |-> "counting_some"]

\* (self.f)(): the value returned and the Cell after the call
CallFn(f, cell) ==
    IF f.fn = "counting"
    THEN [result |-> I32(cell), cell |-> cell + 1]
    ELSE IF f.fn = "counting_some"
    THEN [result |-> SomeValue(I32(cell)), cell |-> cell + 1]
    ELSE [result |-> f.value, cell |-> cell]

repeat_with(n, f) == [k |-> "repeat_with", n |-> n, f |-> f]
repeat(value, n) == [k |-> "repeat", value |-> value, n |-> n]
truncate_chars(value, len) == [k |-> "truncate_chars", value |-> value, len |-> len]
concat(iter) == [k |-> "concat", iter |-> iter]
concat_map(iter, f) == [k |-> "concat_map", iter |-> iter, map |-> f]
concat_tuple(tuple) == [k |-> "concat_tuple", tuple |-> tuple]
join(iter, sep) == [k |-> "join", iter |-> iter, sep |-> sep]
join_map(iter, sep, f) == [k |-> "join_map", iter |-> iter, sep |-> sep, map |-> f]
join_tuple(tuple, sep) == [k |-> "join_tuple", tuple |-> tuple, sep |-> sep]
csv(iter) == join(iter, Str(<<44, 32>>))
csv_map(iter, f) == join_map(iter, Str(<<44, 32>>), f)
\* no_op() is concat_tuple(()); Result<T, U> in CondOr::value
RECURSIVE concat_macro_tuple(_)
\* slip: `() => concat_tuple(())` and `($t0) => concat_tuple(($t0,))`
concat_macro_tuple(args) ==
    IF Len(args) <= 1 THEN concat_tuple(args)
    ELSE LET n == Min(Len(args) - 1, TupleMax - 1)
         IN  concat_tuple(SubSeq(args, 1, n)
                \o <<concat_macro_tuple(SubSeq(args, n + 1, Len(args)))>>)

\* slip: the arm for the longest tuple takes no `$rest`
concat_macro_no_rest(args) ==
    IF args = <<>> THEN Str(<<>>)
    ELSE IF Len(args) = 1 THEN args[1]
    ELSE concat_tuple(SubSeq(args, 1, Min(Len(args), TupleMax)))

RECURSIVE concat_macro(_)
\* concat!(args): `()` is "", one argument is the argument, and the arm that
\* matches first takes the most leading arguments, up to TupleMax - 1, and
\* nests concat!($rest) as the last item of the tuple
concat_macro(args) ==
    IF args = <<>> THEN Str(<<>>)
    ELSE IF Len(args) = 1 THEN args[1]
    ELSE LET n == Min(Len(args) - 1, TupleMax - 1)
         IN  concat_tuple(SubSeq(args, 1, n)
                \o <<concat_macro(SubSeq(args, n + 1, Len(args)))>>)

no_op == concat_tuple(<<>>)
Ok(value) == [ok |-> TRUE, value |-> value]
Err(value) == [ok |-> FALSE, value |-> value]
cond_result(result) == [k |-> "cond_or", value |-> result]
cond_or(write, value, fallback) ==
    cond_result(IF write THEN Ok(value) ELSE Err(fallback))
\* cond_option(if write { Some(value) } else { None }), the fallback no_op()
cond(write, value) == cond_result(IF write THEN Ok(value) ELSE Err(no_op))
cond_with(write, f) ==
    [k |-> "cond_with", make_value |-> [some |-> write, f |-> f]]
cond_with_option(f) == [k |-> "cond_with_option", make_value |-> f]
to_ascii_uppercase(value) == [k |-> "to_ascii_uppercase", value |-> value]
to_ascii_lowercase(value) == [k |-> "to_ascii_lowercase", value |-> value]
to_lowercase(value) == [k |-> "to_lowercase", value |-> value]

\* the single-use constructors put the iterator in the slot (Once::new):
\* the value keeps the rest, `once` holds the iterator
concat_once == [k |-> "concat_once"]
concat_map_once(f) == [k |-> "concat_map_once", map |-> f]
join_once(sep) == [k |-> "join_once", sep |-> sep]
join_map_once(sep, f) == [k |-> "join_map_once", sep |-> sep, map |-> f]
csv_once == join_once(Str(<<44, 32>>))
csv_map_once(f) == join_map_once(Str(<<44, 32>>), f)

\* (self.map)(item) for the closures the model passes
Apply(f, item) == IF f = "quote_double" THEN quote_double(item) ELSE item

None == [some |-> FALSE, iter |-> <<>>]
Some(iter) == [some |-> TRUE, iter |-> iter]

OnceNew(iter) == Some(iter)

\* slip: the payload is cloned out of the cell and the cell left as it is
OnceTakeClone(cell) == [got |-> cell, cell |-> cell]

\* slip: the clone is made without the payload
OnceCloneEmpty(cell) == None

\* impl Clone for Once<T>, T: Clone: a new cell with a clone of the Option
OnceClone(cell) == [some |-> cell.some, iter |-> cell.iter]

\* no clone made; a clone's slot, and how many takes the slot cloned had seen
NoCopy == [made |-> FALSE, once |-> None, at |-> 0]
Copy(cell, at) == [made |-> TRUE, once |-> cell, at |-> at]

\* Once::take: Option::take on the cell
OnceTake(cell) == [got |-> cell, cell |-> None]

(***************************************************************************)
(* Sinks.  "sink" is the caller's (it may refuse a write), "string" an     *)
(* alloc String (format!), "writer" the Writer of TruncateChars::fmt.      *)
(***************************************************************************)
Sink == [kind |-> "sink", buf |-> <<>>, f |-> 0, rem_len |-> 0]
String(s) == [kind |-> "string", buf |-> s, f |-> 0, rem_len |-> 0]
\* slip: the budget is kept in the value and what an earlier render spent
\* of it stays spent
WriterKeptBudget(f, rem_len) ==
    [kind |-> "writer", buf |-> <<>>, f |-> f,
     rem_len |-> IF outs = <<>> THEN rem_len
                 ELSE rem_len - Min(rem_len,
                                    Len(CharIndices(outs[Len(outs)].out)))]
\* slip: the Writer holds the sink of the caller, not the Formatter it got
WriterOnCallersSink(f, rem_len) ==
    [kind |-> "writer", buf |-> <<>>, f |-> 1, rem_len |-> rem_len]
Writer(f, rem_len) == [kind |-> "writer", buf |-> <<>>, f |-> f, rem_len |-> rem_len]
\* the AsciiWriter of ToAsciiUppercase::fmt and ToAsciiLowercase::fmt
AsciiWriter(f, uppercase) ==
    [kind |-> "ascii", buf |-> <<>>, f |-> f, rem_len |-> 0,
     uppercase |-> uppercase]

LowercaseWriter(f) ==
    [kind |-> "lowercase", buf |-> <<>>, f |-> f, rem_len |-> 0,
     uppercase |-> FALSE]

\* a write's outcome: the sinks after it, its Result, the calls it made on
\* the caller's sink and the Writer calls it went through
Outcome(ss, res, calls, wcalls) ==
    [sinks |-> ss, res |-> res, calls |-> calls, wcalls |-> wcalls]

WCall(id, op, s, w, left, fwd, res) ==
    [w |-> id, op |-> op, s |-> s, rem |-> w.rem_len, left |-> left,
     fwd |-> fwd, res |-> res]

RECURSIVE WriteStr(_, _, _, _)
RECURSIVE WriteChar(_, _, _, _)

\* a Writer method returns Ok(()) without calling self.f
WriterDiscard(ss, id, op, s) ==
    Outcome(ss, "ok", <<>>,
            <<WCall(id, op, s, ss[id], ss[id].rem_len, <<>>, "ok")>>)

\* a Writer method sets rem_len to left and returns self.f.write_str(cut)
WriterForwardStr(ss, id, s, cut, left, fail) ==
    LET o == WriteStr([ss EXCEPT ![id].rem_len = left], ss[id].f, cut, fail)
    IN  Outcome(o.sinks, o.res, o.calls,
                <<WCall(id, "write_str", s, ss[id], left, <<cut>>, o.res)>>
                    \o o.wcalls)

\* a Writer method sets rem_len to left and returns self.f.write_char(c)
WriterForwardChar(ss, id, c, left, fail) ==
    LET o == WriteChar([ss EXCEPT ![id].rem_len = left], ss[id].f, c, fail)
    IN  Outcome(o.sinks, o.res, o.calls,
                <<WCall(id, "write_char", EncodeUtf8(c), ss[id], left,
                        <<EncodeUtf8(c)>>, o.res)>> \o o.wcalls)

\* s.char_indices().enumerate().take(take_len).last()
TakeLast(s, take_len) ==
    LET ci == CharIndices(s)
        n == Min(take_len, Len(ci))
    IN  IF n = 0 THEN [some |-> FALSE, char_offset |-> 0, byte_offset |-> 0]
        ELSE [some |-> TRUE, char_offset |-> n - 1, byte_offset |-> ci[n]]

\* slip: no early return at rem_len == 0, the cut is the empty str
WriterWriteStrNoEarlyReturn(ss, id, s, fail) ==
    LET rem_len == ss[id].rem_len
        last == TakeLast(s, rem_len + 1)
    IN  IF rem_len = UsizeMax
        THEN WriterForwardStr(ss, id, s, s, rem_len, fail)
        ELSE IF ~last.some
        THEN WriterDiscard(ss, id, "write_str", s)
        ELSE IF last.char_offset = rem_len
        THEN WriterForwardStr(ss, id, s, SubSeq(s, 1, last.byte_offset), 0, fail)
        ELSE WriterForwardStr(ss, id, s, s, rem_len - (last.char_offset + 1), fail)

\* slip: a spent budget is reported as Err(fmt::Error)
WriterWriteStrErrWhenSpent(ss, id, s, fail) ==
    LET rem_len == ss[id].rem_len
        last == TakeLast(s, rem_len + 1)
    IN  IF rem_len = 0
        THEN Outcome(ss, "err", <<>>,
                     <<WCall(id, "write_str", s, ss[id], 0, <<>>, "err")>>)
        ELSE IF rem_len = UsizeMax
        THEN WriterForwardStr(ss, id, s, s, rem_len, fail)
        ELSE IF ~last.some
        THEN WriterDiscard(ss, id, "write_str", s)
        ELSE IF last.char_offset = rem_len
        THEN WriterForwardStr(ss, id, s, SubSeq(s, 1, last.byte_offset), 0, fail)
        ELSE WriterForwardStr(ss, id, s, s, rem_len - (last.char_offset + 1), fail)

\* slip: a str that fits is forwarded and rem_len left as it is
WriterWriteStrUncounted(ss, id, s, fail) ==
    LET rem_len == ss[id].rem_len
        last == TakeLast(s, rem_len + 1)
    IN  IF rem_len = 0 THEN WriterDiscard(ss, id, "write_str", s)
        ELSE IF rem_len = UsizeMax
        THEN WriterForwardStr(ss, id, s, s, rem_len, fail)
        ELSE IF ~last.some
        THEN WriterDiscard(ss, id, "write_str", s)
        ELSE IF last.char_offset = rem_len
        THEN WriterForwardStr(ss, id, s, SubSeq(s, 1, last.byte_offset), 0, fail)
        ELSE WriterForwardStr(ss, id, s, s, rem_len, fail)

\* Writer::write_str
WriterWriteStr(ss, id, s, fail) ==
    LET rem_len == ss[id].rem_len
        last == TakeLast(s, rem_len + 1)
    IN  IF rem_len = 0 THEN WriterDiscard(ss, id, "write_str", s)
        ELSE IF rem_len = UsizeMax          \* checked_add(1) is None
        THEN WriterForwardStr(ss, id, s, s, rem_len, fail)
        ELSE IF ~last.some                  \* empty iterator
        THEN WriterDiscard(ss, id, "write_str", s)
        ELSE IF last.char_offset = rem_len
        THEN WriterForwardStr(ss, id, s, SubSeq(s, 1, last.byte_offset), 0, fail)
        ELSE WriterForwardStr(ss, id, s, s, rem_len - (last.char_offset + 1), fail)

\* AsciiWriter::write_char
AsciiWriterWriteChar(ss, id, c, fail) ==
    WriteChar(ss, ss[id].f,
              IF ss[id].uppercase THEN ToAsciiUppercase(c)
              ELSE ToAsciiLowercase(c),
              fail)

RECURSIVE AsciiWriterWriteStr(_, _, _, _)
\* AsciiWriter::write_str: for c in s.chars() { self.write_char(c)?; }  Ok(())
AsciiWriterWriteStr(ss, id, s, fail) ==
    IF s = <<>> THEN Outcome(ss, "ok", <<>>, <<>>)
    ELSE LET w == Utf8CharWidth(s[1])
             o == AsciiWriterWriteChar(ss, id, DecodeUtf8(SubSeq(s, 1, w)), fail)
             r == AsciiWriterWriteStr(o.sinks, id, SubSeq(s, w + 1, Len(s)), fail)
         IN  IF o.res = "err" THEN o
             ELSE Outcome(r.sinks, r.res, o.calls \o r.calls,
                          o.wcalls \o r.wcalls)

RECURSIVE LowercaseWriterWriteChars(_, _, _, _)
\* for c in c.to_lowercase() { self.f.write_char(c)?; }  Ok(())
LowercaseWriterWriteChars(ss, id, cs, fail) ==
    IF cs = <<>> THEN Outcome(ss, "ok", <<>>, <<>>)
    ELSE LET o == WriteChar(ss, ss[id].f, Head(cs), fail)
             r == LowercaseWriterWriteChars(o.sinks, id, Tail(cs), fail)
         IN  IF o.res = "err" THEN o
             ELSE Outcome(r.sinks, r.res, o.calls \o r.calls,
                          o.wcalls \o r.wcalls)

\* LowercaseWriter::write_char
LowercaseWriterWriteChar(ss, id, c, fail) ==
    LowercaseWriterWriteChars(ss, id, CharToLowercase(c), fail)

RECURSIVE LowercaseWriterWriteStr(_, _, _, _)
\* LowercaseWriter::write_str: for c in s.chars() { self.write_char(c)?; }
LowercaseWriterWriteStr(ss, id, s, fail) ==
    IF s = <<>> THEN Outcome(ss, "ok", <<>>, <<>>)
    ELSE LET w == Utf8CharWidth(s[1])
             o == LowercaseWriterWriteChar(ss, id, DecodeUtf8(SubSeq(s, 1, w)),
                                           fail)
             r == LowercaseWriterWriteStr(o.sinks, id,
                                          SubSeq(s, w + 1, Len(s)), fail)
         IN  IF o.res = "err" THEN o
             ELSE Outcome(r.sinks, r.res, o.calls \o r.calls,
                          o.wcalls \o r.wcalls)

\* write_str on sink id; `fail`: the caller's sink refuses this write
WriteStr(ss, id, s, fail) ==
    CASE ss[id].kind = "sink" ->
            IF fail
            THEN Outcome(ss, "err", <<[s |-> s, ok |-> FALSE]>>, <<>>)
            ELSE Outcome([ss EXCEPT ![id].buf = @ \o s], "ok",
                         <<[s |-> s, ok |-> TRUE]>>, <<>>)
      [] ss[id].kind = "string" ->
            Outcome([ss EXCEPT ![id].buf = @ \o s], "ok", <<>>, <<>>)
      [] ss[id].kind = "writer" -> WriterWriteStr(ss, id, s, fail)
      [] ss[id].kind = "ascii" -> AsciiWriterWriteStr(ss, id, s, fail)
      [] ss[id].kind = "lowercase" -> LowercaseWriterWriteStr(ss, id, s, fail)

\* slip: the char is forwarded and rem_len not decremented
WriterWriteCharUncounted(ss, id, c, fail) ==
    IF ss[id].rem_len >= 1
    THEN WriterForwardChar(ss, id, c, ss[id].rem_len, fail)
    ELSE WriterDiscard(ss, id, "write_char", EncodeUtf8(c))

\* Writer::write_char
WriterWriteChar(ss, id, c, fail) ==
    IF ss[id].rem_len >= 1                  \* checked_sub(1) is Some
    THEN WriterForwardChar(ss, id, c, ss[id].rem_len - 1, fail)
    ELSE WriterDiscard(ss, id, "write_char", EncodeUtf8(c))

\* write_char on sink id: the provided method encodes and calls write_str
WriteChar(ss, id, c, fail) ==
    IF ss[id].kind = "writer"
    THEN WriterWriteChar(ss, id, c, fail)
    ELSE IF ss[id].kind = "ascii"
    THEN AsciiWriterWriteChar(ss, id, c, fail)
    ELSE IF ss[id].kind = "lowercase"
    THEN LowercaseWriterWriteChar(ss, id, c, fail)
    ELSE WriteStr(ss, id, EncodeUtf8(c), fail)

(***************************************************************************)
(* The call stack.                                                         *)
(***************************************************************************)
\* a fresh activation of node.fmt(f), f a Formatter over sink f
Frame(node, f) ==
    [node |-> node, f |-> f, pc |-> "start", iter |-> <<>>, i |-> 0,
     cur |-> Str(<<>>)]

Top == stack[Len(stack)]
Below == SubSeq(stack, 1, Len(stack) - 1)

\* the top frame returns res to its caller; the outermost return ends the
\* render and records what the caller's sink received
Return(res, ss, lg) ==
    /\ stack' = Below
    /\ sinks' = ss
    /\ log' = lg
    /\ IF Below = <<>>
       THEN LET out == [out |-> ss[1].buf, res |-> res, log |-> lg]
            IN  /\ ret' = "none"
                /\ copy_outs' =
                        IF target = "copy" THEN Append(copy_outs, out)
                        ELSE copy_outs
                /\ inner_outs' =
                        IF target = "inner" THEN Append(inner_outs, out)
                        ELSE inner_outs
                /\ outs' = IF target = "prog" THEN Append(outs, out) ELSE outs
       ELSE /\ ret' = res
            /\ UNCHANGED <<outs, copy_outs, inner_outs>>

\* the top frame, continued as fr, calls child.fmt on sink f
Call(fr, child, f, ss) ==
    /\ stack' = Below \o <<fr, Frame(child, f)>>
    /\ sinks' = ss
    /\ ret' = "none"
    /\ UNCHANGED <<outs, copy_outs, inner_outs, log>>

\* the top frame goes on as fr without a call
Step(fr, r, ss) ==
    /\ stack' = Append(Below, fr)
    /\ sinks' = ss
    /\ ret' = r
    /\ UNCHANGED <<outs, copy_outs, inner_outs, log>>

\* where in the outermost fmt call a write on the caller's sink was made
Tagged(calls) ==
    [j \in 1..Len(calls) |->
        [s |-> calls[j].s, ok |-> calls[j].ok,
         i |-> stack[1].i, pc |-> stack[1].pc]]

(***************************************************************************)
(* Leaves: Display for str and char (what `{}` of a &str, a String or a    *)
(* char calls on the Formatter).                                           *)
(***************************************************************************)
\* what the caller's sink may answer to a write: it may refuse any write,
\* until a render of this behaviour has failed; the sinks given to a clone
\* and to a wrapper that has been cloned take every write
Refusals ==
    IF ~copy.made /\ \A j \in DOMAIN outs : outs[j].res = "ok"
    THEN BOOLEAN ELSE {FALSE}

StrFmt ==
    /\ stack # <<>>
    /\ Top.node.k = "str"
    /\ \E fail \in Refusals :
        LET o == WriteStr(sinks, Top.f, Top.node.s, fail)
        IN  /\ wlog' = wlog \o o.wcalls
            /\ Return(o.res, o.sinks, log \o Tagged(o.calls))
    /\ UNCHANGED <<prog, counter, target, once, takes, copy, copy_takes>>

CharFmt ==
    /\ stack # <<>>
    /\ Top.node.k = "char"
    /\ \E fail \in Refusals :
        LET o == WriteChar(sinks, Top.f, Top.node.c, fail)
        IN  /\ wlog' = wlog \o o.wcalls
            /\ Return(o.res, o.sinks, log \o Tagged(o.calls))
    /\ UNCHANGED <<prog, counter, target, once, takes, copy, copy_takes>>

(***************************************************************************)
(* write!(f, "{}{}..", a, b, ..): the arguments are formatted in order and *)
(* the first Err is returned (the `?` after write! in a loop likewise).    *)
(***************************************************************************)
WriteArgs(fr) ==
    IF ret = "err" THEN Return("err", sinks, log)
    ELSE IF fr.iter = <<>> THEN Return("ok", sinks, log)
    ELSE Call([fr EXCEPT !.iter = Tail(@), !.i = @ + 1, !.pc = "args"],
              Head(fr.iter), fr.f, sinks)

\* slip: write!(f, "{}{}{}", self.value, self.left, self.right)
InfixFmtValueFirst ==
    /\ stack # <<>>
    /\ Top.node.k = "infix"
    /\ IF Top.pc = "start"
       THEN WriteArgs([Top EXCEPT
                !.iter = <<Top.node.value, Top.node.left, Top.node.right>>])
       ELSE WriteArgs(Top)
    /\ UNCHANGED <<prog, counter, target, once, takes, copy, copy_takes, wlog>>

\* impl Display for Infix
InfixFmt ==
    /\ stack # <<>>
    /\ Top.node.k = "infix"
    /\ IF Top.pc = "start"
       THEN WriteArgs([Top EXCEPT
                !.iter = <<Top.node.left, Top.node.value, Top.node.right>>])
       ELSE WriteArgs(Top)
    /\ UNCHANGED <<prog, counter, target, once, takes, copy, copy_takes, wlog>>

\* impl Display for ConcatTuple<()> and for ConcatTuple<(T0, ..)>
ConcatTupleFmt ==
    /\ stack # <<>>
    /\ Top.node.k = "concat_tuple"
    /\ IF Top.pc = "start"
       THEN IF Top.node.tuple = <<>>
            THEN Return("ok", sinks, log)
            ELSE WriteArgs([Top EXCEPT !.iter = Top.node.tuple])
       ELSE WriteArgs(Top)
    /\ UNCHANGED <<prog, counter, target, once, takes, copy, copy_takes, wlog>>

RECURSIVE impl_tuple_fmt(_, _)
\* the arguments of the format string impl_tuple_fmt! builds: the first
\* item, then {sep} and the item for each of the rest
impl_tuple_fmt(tuple, sep) ==
    IF Len(tuple) = 1 THEN tuple
    ELSE impl_tuple_fmt(SubSeq(tuple, 1, Len(tuple) - 1), sep)
            \o <<sep, tuple[Len(tuple)]>>

\* impl Display for JoinTuple<(), S>, <(T0,), S> and <(T0, T1, ..), S>
JoinTupleFmt ==
    /\ stack # <<>>
    /\ Top.node.k = "join_tuple"
    /\ IF Top.pc = "start"
       THEN IF Top.node.tuple = <<>>
            THEN Return("ok", sinks, log)
            ELSE WriteArgs([Top EXCEPT
                    !.iter = impl_tuple_fmt(Top.node.tuple, Top.node.sep)])
       ELSE WriteArgs(Top)
    /\ UNCHANGED <<prog, counter, target, once, takes, copy, copy_takes, wlog>>

\* slip: the repeats done are counted in the value and the count is not
\* reset, so that only the first render has any left
RepeatFmtKeptCount ==
    /\ stack # <<>>
    /\ Top.node.k = "repeat"
    /\ IF ret = "err" THEN Return("err", sinks, log)
       ELSE IF Top.i >= Top.node.n \/ outs # <<>>
       THEN Return("ok", sinks, log)
       ELSE Call([Top EXCEPT !.i = @ + 1, !.pc = "loop"],
                 Top.node.value, Top.f, sinks)
    /\ UNCHANGED <<prog, counter, target, once, takes, copy, copy_takes, wlog>>

\* impl Display for Repeat
RepeatFmt ==
    /\ stack # <<>>
    /\ Top.node.k = "repeat"
    /\ IF ret = "err" THEN Return("err", sinks, log)
       ELSE IF Top.i >= Top.node.n THEN Return("ok", sinks, log)
       ELSE Call([Top EXCEPT !.i = @ + 1, !.pc = "loop"],
                 Top.node.value, Top.f, sinks)
    /\ UNCHANGED <<prog, counter, target, once, takes, copy, copy_takes, wlog>>

\* slip: the closure is called once and its result written n times
RepeatWithFmtCallOnce ==
    /\ stack # <<>>
    /\ Top.node.k = "repeat_with"
    /\ IF ret = "err" THEN Return("err", sinks, log) /\ counter' = counter
       ELSE IF Top.i >= Top.node.n
       THEN Return("ok", sinks, log) /\ counter' = counter
       ELSE IF Top.i = 0
       THEN LET r == CallFn(Top.node.f, counter)
            IN  /\ counter' = r.cell
                /\ Call([Top EXCEPT !.i = @ + 1, !.pc = "loop",
                                    !.cur = r.result],
                        r.result, Top.f, sinks)
       ELSE /\ counter' = counter
            /\ Call([Top EXCEPT !.i = @ + 1], Top.cur, Top.f, sinks)
    /\ UNCHANGED <<prog, target, once, takes, copy, copy_takes, wlog>>

\* impl Display for RepeatWith:
\* for _ in 0..self.n { write!(f, "{}", (self.f)())?; }  Ok(())
RepeatWithFmt ==
    /\ stack # <<>>
    /\ Top.node.k = "repeat_with"
    /\ IF ret = "err" THEN Return("err", sinks, log) /\ counter' = counter
       ELSE IF Top.i >= Top.node.n
       THEN Return("ok", sinks, log) /\ counter' = counter
       ELSE LET r == CallFn(Top.node.f, counter)
            IN  /\ counter' = r.cell
                /\ Call([Top EXCEPT !.i = @ + 1, !.pc = "loop"],
                        r.result, Top.f, sinks)
    /\ UNCHANGED <<prog, target, once, takes, copy, copy_takes, wlog>>

\* impl Display for CondOr: Ok(value) => value.fmt(f), Err(value) => value.fmt(f)
CondOrFmt ==
    /\ stack # <<>>
    /\ Top.node.k = "cond_or"
    /\ IF Top.pc = "start"
       THEN Call([Top EXCEPT !.pc = "value"], Top.node.value.value, Top.f, sinks)
       ELSE Return(ret, sinks, log)
    /\ UNCHANGED <<prog, counter, target, once, takes, copy, copy_takes, wlog>>

\* impl Display for CondWith<Option<F>>:
\* if let Some(make_value) = &self.make_value { make_value().fmt(f)?; }  Ok(())
CondWithFmt ==
    /\ stack # <<>>
    /\ Top.node.k = "cond_with"
    /\ IF Top.pc = "start" /\ Top.node.make_value.some
       THEN LET r == CallFn(Top.node.make_value.f, counter)
            IN  /\ counter' = r.cell
                /\ Call([Top EXCEPT !.pc = "value"], r.result, Top.f, sinks)
       ELSE /\ counter' = counter
            /\ Return(IF ret = "err" THEN "err" ELSE "ok", sinks, log)
    /\ UNCHANGED <<prog, target, once, takes, copy, copy_takes, wlog>>

\* impl Display for CondWith<F>, F: Fn() -> Option<R>:
\* if let Some(value) = (self.make_value)() { value.fmt(f)?; }  Ok(())
CondWithOptionFmt ==
    /\ stack # <<>>
    /\ Top.node.k = "cond_with_option"
    /\ IF Top.pc = "start"
       THEN LET r == CallFn(Top.node.make_value, counter)
            IN  /\ counter' = r.cell
                /\ IF r.result.some
                   THEN Call([Top EXCEPT !.pc = "value"], r.result.value,
                             Top.f, sinks)
                   ELSE Return("ok", sinks, log)
       ELSE /\ counter' = counter
            /\ Return(IF ret = "err" THEN "err" ELSE "ok", sinks, log)
    /\ UNCHANGED <<prog, target, once, takes, copy, copy_takes, wlog>>

\* write!(AsciiWriter { f, uppercase }, "{}", self.value)
AsciiFmt(uppercase) ==
    IF Top.pc = "start"
    THEN Call([Top EXCEPT !.pc = "write"], Top.node.value, Len(sinks) + 1,
              Append(sinks, AsciiWriter(Top.f, uppercase)))
    ELSE Return(ret, SubSeq(sinks, 1, Len(sinks) - 1), log)

\* impl Display for ToAsciiLowercase
ToAsciiLowercaseFmt ==
    /\ stack # <<>>
    /\ Top.node.k = "to_ascii_lowercase"
    /\ AsciiFmt(FALSE)
    /\ UNCHANGED <<prog, counter, target, once, takes, copy, copy_takes, wlog>>

\* impl Display for ToLowercase: write!(LowercaseWriter { f }, "{}", self.value)
ToLowercaseFmt ==
    /\ stack # <<>>
    /\ Top.node.k = "to_lowercase"
    /\ IF Top.pc = "start"
       THEN Call([Top EXCEPT !.pc = "write"], Top.node.value, Len(sinks) + 1,
                 Append(sinks, LowercaseWriter(Top.f)))
       ELSE Return(ret, SubSeq(sinks, 1, Len(sinks) - 1), log)
    /\ UNCHANGED <<prog, counter, target, once, takes, copy, copy_takes, wlog>>

\* impl Display for ToAsciiUppercase
ToAsciiUppercaseFmt ==
    /\ stack # <<>>
    /\ Top.node.k = "to_ascii_uppercase"
    /\ AsciiFmt(TRUE)
    /\ UNCHANGED <<prog, counter, target, once, takes, copy, copy_takes, wlog>>

\* slip: no write_fmt of its own, the provided one formats the value
TruncateCharsFmtProvidedWriteFmt ==
    /\ stack # <<>>
    /\ Top.node.k = "truncate_chars"
    /\ LET id == Len(sinks) + 1
           w == Writer(Top.f, Top.node.len)
       IN  IF Top.pc = "start"
           THEN /\ wlog' = wlog
                /\ Call([Top EXCEPT !.pc = "write"], Top.node.value, id,
                        Append(sinks, w))
           ELSE /\ wlog' = Append(wlog,
                        WCall(id - 1, "write_fmt", <<>>, w,
                              sinks[id - 1].rem_len, <<>>, ret))
                /\ Return(ret, SubSeq(sinks, 1, Len(sinks) - 1), log)
    /\ UNCHANGED <<prog, counter, target, once, takes, copy, copy_takes>>

\* slip: a spent budget ends the render with Err, to stop the value early
TruncateCharsFmtErrWhenSpent ==
    /\ stack # <<>>
    /\ Top.node.k = "truncate_chars"
    /\ LET id == Len(sinks) + 1
           w == Writer(Top.f, Top.node.len)
       IN  IF Top.pc = "start"
           THEN IF w.rem_len = 0
                THEN /\ wlog' = Append(wlog,
                            WCall(id, "write_fmt", <<>>, w, 0, <<>>, "err"))
                     /\ Return("err", sinks, log)
                ELSE /\ wlog' = wlog
                     /\ Call([Top EXCEPT !.pc = "write"], Top.node.value, id,
                             Append(sinks, w))
           ELSE LET r == IF sinks[id - 1].rem_len = 0 THEN "err" ELSE ret
                IN  /\ wlog' = Append(wlog,
                            WCall(id - 1, "write_fmt", <<>>, w,
                                  sinks[id - 1].rem_len, <<>>, r))
                    /\ Return(r, SubSeq(sinks, 1, Len(sinks) - 1), log)
    /\ UNCHANGED <<prog, counter, target, once, takes, copy, copy_takes>>

(***************************************************************************)
(* impl Display for TruncateChars: a Writer with rem_len = len is put      *)
(* between the value and f; write_fmt formats the value into it.           *)
(***************************************************************************)
TruncateCharsFmt ==
    /\ stack # <<>>
    /\ Top.node.k = "truncate_chars"
    /\ LET id == Len(sinks) + 1
           w == Writer(Top.f, Top.node.len)
       IN  IF Top.pc = "start"
           THEN IF w.rem_len = 0            \* Writer::write_fmt
                THEN /\ wlog' = Append(wlog,
                            WCall(id, "write_fmt", <<>>, w, 0, <<>>, "ok"))
                     /\ Return("ok", sinks, log)
                ELSE /\ wlog' = wlog
                     /\ Call([Top EXCEPT !.pc = "write"], Top.node.value, id,
                             Append(sinks, w))
           ELSE /\ wlog' = Append(wlog,
                        WCall(id - 1, "write_fmt", <<>>, w,
                              sinks[id - 1].rem_len, <<>>, ret))
                /\ Return(ret, SubSeq(sinks, 1, Len(sinks) - 1), log)
    /\ UNCHANGED <<prog, counter, target, once, takes, copy, copy_takes>>

(***************************************************************************)
(* Iterators.  An iterator is the sequence of the items it has yet to      *)
(* yield.  Producing a Cyc item runs format!("..{rc}"): the text so far    *)
(* goes to a new String, rc (the wrapper itself) is rendered into it, and  *)
(* the String is the item.                                                 *)
(***************************************************************************)
NextPcs == {"next_first", "next_rest", "next_loop"}

\* iter.next() is about to run a closure that renders rc
NeedsNext(fr) ==
    /\ ret # "err"
    /\ fr.pc \in {"first", "rest", "loop"}
    /\ fr.iter # <<>>
    /\ Head(fr.iter).k = "cyc"

\* the closure starts: format! writes its literal text and calls rc.fmt
NextBegin(fr) ==
    Call([fr EXCEPT !.pc = "next_" \o fr.pc], fr.node, Len(sinks) + 1,
         Append(sinks, String(Head(fr.iter).s)))

\* rc.fmt returned: the String is the item next() yields
NextEnd(fr) ==
    Step([fr EXCEPT !.pc = SubSeq(fr.pc, 6, Len(fr.pc)),
                    !.iter = <<Str(sinks[Len(sinks)].buf)>> \o Tail(@)],
         "ok", SubSeq(sinks, 1, Len(sinks) - 1))

\* slip: the Result of write! is dropped (no `?`)
ConcatLoopIgnoreErr(fr, f) ==
    IF fr.iter = <<>> THEN Return("ok", sinks, log)
    ELSE Call([fr EXCEPT !.iter = Tail(@), !.i = @ + 1, !.pc = "loop"],
              Apply(f, Head(fr.iter)), fr.f, sinks)

\* for item in iter { write!(f, "{}", map(item))?; }  Ok(())
ConcatLoop(fr, f) ==
    IF ret = "err" THEN Return("err", sinks, log)
    ELSE IF fr.iter = <<>> THEN Return("ok", sinks, log)
    ELSE Call([fr EXCEPT !.iter = Tail(@), !.i = @ + 1, !.pc = "loop"],
              Apply(f, Head(fr.iter)), fr.f, sinks)

\* slip: every item is followed by the separator, the last one too
JoinLoopSepAfter(fr, f) ==
    IF ret = "err" THEN Return("err", sinks, log)
    ELSE IF fr.pc = "sep"
    THEN Call([fr EXCEPT !.pc = "rest"], fr.node.sep, fr.f, sinks)
    ELSE IF fr.iter = <<>> THEN Return("ok", sinks, log)
    ELSE Call([fr EXCEPT !.iter = Tail(@), !.i = @ + 1, !.pc = "sep"],
              Apply(f, Head(fr.iter)), fr.f, sinks)

\* if let Some(item) = iter.next() { write!(f, "{}", map(item))?; }
\* for item in iter { write!(f, "{}{}", self.sep, map(item))?; }  Ok(())
JoinLoop(fr, f) ==
    IF ret = "err" THEN Return("err", sinks, log)
    ELSE IF fr.pc = "sep"
    THEN Call([fr EXCEPT !.pc = "rest"], fr.cur, fr.f, sinks)
    ELSE IF fr.iter = <<>> THEN Return("ok", sinks, log)
    ELSE IF fr.pc = "first"
    THEN Call([fr EXCEPT !.iter = Tail(@), !.i = @ + 1, !.pc = "rest"],
              Apply(f, Head(fr.iter)), fr.f, sinks)
    ELSE Call([fr EXCEPT !.iter = Tail(@), !.i = @ + 1, !.pc = "sep",
                         !.cur = Apply(f, Head(fr.iter))],
              fr.node.sep, fr.f, sinks)

\* let iter = self.iter.clone()
CloneIter(fr, pc) == Step([fr EXCEPT !.iter = fr.node.iter, !.pc = pc], "none", sinks)

\* slip: the iterator is used through the cell and left in it
TakeIterBorrow(fr, pc) ==
    /\ once' = once
    /\ takes' = Append(takes, once)
    /\ UNCHANGED <<copy, copy_takes>>
    /\ IF once.some
       THEN Step([fr EXCEPT !.iter = once.iter, !.pc = pc], "none", sinks)
       ELSE Return("ok", sinks, log)

\* slip: a consumed wrapper is an error, as for itertools' Format
TakeIterErrWhenEmpty(fr, pc) ==
    LET t == OnceTake(once)
    IN  /\ once' = t.cell
        /\ takes' = Append(takes, t.got)
        /\ UNCHANGED <<copy, copy_takes>>
        /\ IF t.got.some
           THEN Step([fr EXCEPT !.iter = t.got.iter, !.pc = pc], "none", sinks)
           ELSE Return("err", sinks, log)

\* if let Some(iter) = self.iter.take() { .. }  Ok(())
TakeIter(fr, pc) ==
    LET t == OnceTake(IF target = "copy" THEN copy.once ELSE once)
    IN  /\ IF target = "copy"
           THEN /\ copy' = [copy EXCEPT !.once = t.cell]
                /\ copy_takes' = Append(copy_takes, t.got)
                /\ UNCHANGED <<once, takes>>
           ELSE /\ once' = t.cell
                /\ takes' = Append(takes, t.got)
                /\ UNCHANGED <<copy, copy_takes>>
        /\ IF t.got.some
           THEN Step([fr EXCEPT !.iter = t.got.iter, !.pc = pc], "none", sinks)
           ELSE Return("ok", sinks, log)

\* impl Display for Concat<I>
ConcatFmt ==
    /\ stack # <<>>
    /\ Top.node.k = "concat"
    /\ IF Top.pc = "start" THEN CloneIter(Top, "loop") ELSE ConcatLoop(Top, "id")
    /\ UNCHANGED <<prog, counter, target, once, takes, copy, copy_takes, wlog>>

\* impl Display for ConcatMap<I, F>
ConcatMapFmt ==
    /\ stack # <<>>
    /\ Top.node.k = "concat_map"
    /\ IF Top.pc = "start" THEN CloneIter(Top, "loop")
       ELSE ConcatLoop(Top, Top.node.map)
    /\ UNCHANGED <<prog, counter, target, once, takes, copy, copy_takes, wlog>>

\* impl Display for ConcatOnce<I>
ConcatOnceFmt ==
    /\ stack # <<>>
    /\ Top.node.k = "concat_once"
    /\ IF Top.pc = "start" THEN TakeIter(Top, "loop")
       ELSE /\ IF Top.pc \in NextPcs THEN NextEnd(Top)
               ELSE IF NeedsNext(Top) THEN NextBegin(Top)
               ELSE ConcatLoop(Top, "id")
            /\ UNCHANGED <<once, takes, copy, copy_takes>>
    /\ UNCHANGED <<prog, counter, target, wlog>>

\* impl Display for ConcatMapOnce<I, F>
ConcatMapOnceFmt ==
    /\ stack # <<>>
    /\ Top.node.k = "concat_map_once"
    /\ IF Top.pc = "start" THEN TakeIter(Top, "loop")
       ELSE /\ IF Top.pc \in NextPcs THEN NextEnd(Top)
               ELSE IF NeedsNext(Top) THEN NextBegin(Top)
               ELSE ConcatLoop(Top, Top.node.map)
            /\ UNCHANGED <<once, takes, copy, copy_takes>>
    /\ UNCHANGED <<prog, counter, target, wlog>>

\* impl Display for Join<I, S>
JoinFmt ==
    /\ stack # <<>>
    /\ Top.node.k = "join"
    /\ IF Top.pc = "start" THEN CloneIter(Top, "first") ELSE JoinLoop(Top, "id")
    /\ UNCHANGED <<prog, counter, target, once, takes, copy, copy_takes, wlog>>

\* impl Display for JoinMap<I, S, F>
JoinMapFmt ==
    /\ stack # <<>>
    /\ Top.node.k = "join_map"
    /\ IF Top.pc = "start" THEN CloneIter(Top, "first")
       ELSE JoinLoop(Top, Top.node.map)
    /\ UNCHANGED <<prog, counter, target, once, takes, copy, copy_takes, wlog>>

\* slip: no first item written apart, every item follows a separator
JoinOnceFmtSepFirst ==
    /\ stack # <<>>
    /\ Top.node.k = "join_once"
    /\ IF Top.pc = "start" THEN TakeIter(Top, "rest")
       ELSE /\ IF Top.pc \in NextPcs THEN NextEnd(Top)
               ELSE IF NeedsNext(Top) THEN NextBegin(Top)
               ELSE JoinLoop(Top, "id")
            /\ UNCHANGED <<once, takes, copy, copy_takes>>
    /\ UNCHANGED <<prog, counter, target, wlog>>

\* impl Display for JoinOnce<I, S>
JoinOnceFmt ==
    /\ stack # <<>>
    /\ Top.node.k = "join_once"
    /\ IF Top.pc = "start" THEN TakeIter(Top, "first")
       ELSE /\ IF Top.pc \in NextPcs THEN NextEnd(Top)
               ELSE IF NeedsNext(Top) THEN NextBegin(Top)
               ELSE JoinLoop(Top, "id")
            /\ UNCHANGED <<once, takes, copy, copy_takes>>
    /\ UNCHANGED <<prog, counter, target, wlog>>

\* impl Display for JoinMapOnce<I, S, F>
JoinMapOnceFmt ==
    /\ stack # <<>>
    /\ Top.node.k = "join_map_once"
    /\ IF Top.pc = "start" THEN TakeIter(Top, "first")
       ELSE /\ IF Top.pc \in NextPcs THEN NextEnd(Top)
               ELSE IF NeedsNext(Top) THEN NextBegin(Top)
               ELSE JoinLoop(Top, Top.node.map)
            /\ UNCHANGED <<once, takes, copy, copy_takes>>
    /\ UNCHANGED <<prog, counter, target, wlog>>

(***************************************************************************)
(* The caller: value.to_string(), write!(sink, "{}", value), ..: a render  *)
(* of prog into a sink of the caller's.                                    *)
(***************************************************************************)
Render ==
    /\ stack = <<>>
    /\ Len(outs) + Len(copy_outs) + Len(inner_outs) < MaxRenders
    /\ stack' = <<Frame(prog, 1)>>
    /\ sinks' = <<Sink>>
    /\ ret' = "none"
    /\ log' = <<>>
    /\ wlog' = <<>>
    /\ target' = "prog"
    /\ UNCHANGED <<prog, counter, once, takes, copy, copy_takes, outs, copy_outs,
                   inner_outs>>

(***************************************************************************)
(* The values rendered.                                                    *)
(***************************************************************************)
\* "", "éb", "a€é" and 'c'
Texts == {<<>>, <<233, 98>>, <<97, 8364, 233>>}
Chars == {99}
Leaves == {Str(Utf8(t)) : t \in Texts} \cup {Chr(c) : c \in Chars}
\* the separator '€' (csv has its own, ", ")
Seps == {Chr(8364)}
Maps == {"quote_double"}

SeqsOf(S, n) == UNION {[1..m -> S] : m \in 0..n}

Items == SeqsOf(Leaves, MaxItems)
Lens == 0..MaxLen \cup {UsizeMax}

\* iterators that render the wrapper holding them while producing an item
CycItems ==
    {<<Cyc(<<88>>)>>} \cup
    {<<l, Cyc(<<88>>)>> : l \in Leaves} \cup {<<Cyc(<<88>>), l>> : l \in Leaves}

\* closures: `|| "éb"` and the counting closure
Fns == {Constant(Str(Utf8(<<233, 98>>))), Counting}

\* closures returning Option: `|| None`, `|| Some("éb")`, the counting one
OptionFns ==
    {Constant(NoValue), Constant(SomeValue(Str(Utf8(<<233, 98>>)))),
     CountingSome}

\* what is composed after a truncated value: "éb" and 'c'
Siblings == {Str(Utf8(<<233, 98>>)), Chr(99)}

\* the j-th argument of a long concat!: 'a', 'b', .., every fourth one "éb"
Arg(j) == IF j % 4 = 0 THEN Str(Utf8(<<233, 98>>)) ELSE Chr(96 + j)

\* argument lists of concat!: one leaf, and 'a', 'b', .. up to MaxArgs
MacroArgs ==
    {<<l>> : l \in Leaves} \cup {[j \in 1..n |-> Arg(j)] : n \in 0..MaxArgs}

\* texts with letters to lowercase: "AΣ", "ΣA", "A.Σ", "İb"
CasedTexts == {<<65, 931>>, <<931, 65>>, <<65, 46, 931>>, <<304, 98>>}

\* the ways to deliver "a€é" in at most MaxWrites writes: strs, chars and
\* empty strs, as the arguments of one format_args!
DeliveredText == <<97, 8364, 233>>
Pieces ==
    {Str(<<>>)}
    \cup {Chr(DeliveredText[a]) : a \in DOMAIN DeliveredText}
    \cup {Str(Utf8(SubSeq(DeliveredText, a, b))) :
                a \in DOMAIN DeliveredText, b \in DOMAIN DeliveredText}
PieceText(p) == IF p.k = "str" THEN p.s ELSE EncodeUtf8(p.c)
Delivers(d) ==
    ConcatSeqs([j \in DOMAIN d |-> PieceText(d[j])]) = Utf8(DeliveredText)
Deliveries == {d \in SeqsOf(Pieces, MaxWrites) : Delivers(d)}

Pure ==
    {truncate_chars(l, n) : l \in Leaves, n \in Lens}
    \cup {truncate_chars(concat_tuple(t), n) : t \in Items, n \in Lens}
    \cup {truncate_chars(concat_tuple(d), n) : d \in Deliveries, n \in 0..MaxLen}
    \cup {truncate_chars(truncate_chars(x, a), b) :
                x \in Leaves \cup {concat_tuple(<<y, Chr(99)>>) : y \in Siblings},
                a \in Lens, b \in Lens}
    \cup {concat_tuple(<<truncate_chars(x, n), y>>) :
                x \in Leaves, n \in 0..MaxLen, y \in Siblings}
    \cup {concat(<<truncate_chars(x, n), y>>) :
                x \in Leaves, n \in 0..MaxLen, y \in Siblings}
    \cup {concat(t) : t \in Items}
    \cup {concat_map(t, f) : t \in Items, f \in Maps}
    \cup {concat_tuple(t) : t \in Items}
    \cup {concat_macro(a) : a \in MacroArgs}
    \cup {join(t, s) : t \in Items, s \in Seps}
    \cup {join_map(t, s, f) : t \in Items, s \in Seps, f \in Maps}
    \cup {join_tuple(t, s) : t \in Items, s \in Seps}
    \cup {csv(t) : t \in Items}
    \cup {repeat(l, n) : l \in Leaves, n \in 0..MaxN}
    \cup {repeat_with(n, f) : n \in 0..MaxN, f \in Fns}
    \cup {truncate_chars(repeat_with(n, Counting), len) :
                n \in 0..MaxN, len \in 0..MaxLen}
    \cup {cond(w, l) : w \in BOOLEAN, l \in Leaves}
    \cup {cond_or(w, l, Chr(45)) : w \in BOOLEAN, l \in Leaves}
    \cup {cond_with(w, f) : w \in BOOLEAN, f \in Fns}
    \cup {cond_with_option(f) : f \in OptionFns}
    \cup {to_ascii_uppercase(l) : l \in Leaves}
    \cup {to_lowercase(Str(Utf8(t))) : t \in CasedTexts}
    \cup {to_lowercase(concat_tuple(<<Chr(65), Chr(c)>>)) : c \in {98, 931}}
    \cup {to_ascii_lowercase(to_ascii_uppercase(l)) : l \in Leaves}
    \cup {infix(Chr(40), v, Str(<<41, 41>>)) : v \in Leaves}

SingleUse ==
    {concat_once, csv_once}
    \cup {concat_map_once(f) : f \in Maps}
    \cup {join_once(s) : s \in Seps}
    \cup {join_map_once(s, f) : s \in Seps, f \in Maps}
    \cup {csv_map_once(f) : f \in Maps}

\* a single-use wrapper inside truncate_chars: truncate_chars(&w, n)
Nested ==
    {truncate_chars(w, n) :
        w \in {concat_once} \cup {join_once(s) : s \in Seps}, n \in 0..MaxLen}

(***************************************************************************)
(* #[derive(Clone)] on Concat, ConcatMap, Join and JoinMap with Clone for  *)
(* Once<I>: wrapper.clone(), for an iterator that is Clone.  The clone is  *)
(* a second wrapper with a slot of its own; it is rendered like prog.      *)
(***************************************************************************)
CloneWrapper ==
    /\ stack = <<>>
    /\ prog \in SingleUse
    /\ ~copy.made
    /\ \A j \in DOMAIN once.iter : once.iter[j].k # "cyc"
    /\ copy' = Copy(OnceClone(once), Len(takes))
    /\ UNCHANGED <<prog, counter, target, once, stack, sinks, ret, log, wlog,
                   takes, outs, copy_takes, copy_outs, inner_outs>>

RenderCopy ==
    /\ stack = <<>>
    /\ copy.made
    /\ Len(outs) + Len(copy_outs) + Len(inner_outs) < MaxRenders
    /\ stack' = <<Frame(prog, 1)>>
    /\ sinks' = <<Sink>>
    /\ ret' = "none"
    /\ log' = <<>>
    /\ wlog' = <<>>
    /\ target' = "copy"
    /\ UNCHANGED <<prog, counter, once, takes, copy, copy_takes, outs, copy_outs,
                   inner_outs>>

\* let w = concat_once(items); then w.to_string(), the wrapper rendered
\* directly while truncate_chars(&w, n) holds a reference to it
RenderInner ==
    /\ stack = <<>>
    /\ prog \in Nested
    /\ Len(outs) + Len(copy_outs) + Len(inner_outs) < MaxRenders
    /\ stack' = <<Frame(prog.value, 1)>>
    /\ sinks' = <<Sink>>
    /\ ret' = "none"
    /\ log' = <<>>
    /\ wlog' = <<>>
    /\ target' = "inner"
    /\ UNCHANGED <<prog, counter, once, takes, copy, copy_takes, outs, copy_outs,
                   inner_outs>>

Init ==
    /\ \/ prog \in Pure /\ once = None
       \/ prog \in Nested /\ once \in {OnceNew(t) : t \in Items}
       \/ prog \in SingleUse /\ once \in {OnceNew(t) : t \in Items \cup CycItems}
    /\ stack = <<>>
    /\ sinks = <<Sink>>
    /\ ret = "none"
    /\ log = <<>>
    /\ wlog = <<>>
    /\ takes = <<>>
    /\ outs = <<>>
    /\ counter = 1
    /\ copy = NoCopy
    /\ target = "prog"
    /\ copy_takes = <<>>
    /\ copy_outs = <<>>
    /\ inner_outs = <<>>

Next ==
    \/ Render
    \/ CloneWrapper
    \/ RenderCopy
    \/ RenderInner
    \/ StrFmt
    \/ CharFmt
    \/ InfixFmt
    \/ RepeatFmt
    \/ RepeatWithFmt
    \/ CondOrFmt
    \/ CondWithFmt
    \/ CondWithOptionFmt
    \/ ToAsciiLowercaseFmt
    \/ ToAsciiUppercaseFmt
    \/ ToLowercaseFmt
    \/ TruncateCharsFmt
    \/ ConcatFmt
    \/ ConcatMapFmt
    \/ ConcatOnceFmt
    \/ ConcatMapOnceFmt
    \/ ConcatTupleFmt
    \/ JoinFmt
    \/ JoinMapFmt
    \/ JoinOnceFmt
    \/ JoinMapOnceFmt
    \/ JoinTupleFmt

Spec == Init /\ [][Next]_vars

\* a step of the fmt call under way
Running == stack # <<>> /\ Next

\* A fmt call, once entered, runs on until it returns: it is a synchronous
\* call and nothing suspends it.  This is weak fairness of Running,
\* WF_vars(Running), with ENABLED <<Running>>_vars written as the state
\* predicate it equals: every call under way has a step, and each step
\* changes stack or the position of its top frame.
LiveSpec == Spec /\ ([]<>(stack = <<>>) \/ []<><<Running>>_vars)

(***************************************************************************)
(* What a value is meant to render, read off its structure, and characters *)
(* counted on the encoded text (a char starts at every byte that is not a  *)
(* continuation byte).  The properties below compare the machine's output  *)
(* with these.                                                             *)
(***************************************************************************)
IsCharStart(b) == b < 128 \/ b >= 192
CharStarts(s) == {p \in 1..Len(s) : IsCharStart(s[p])}
NumChars(s) == Cardinality(CharStarts(s))

\* the first n characters of s (all of s when it has no more than n)
FirstChars(s, n) ==
    LET cut == {p \in CharStarts(s) :
                    Cardinality({q \in CharStarts(s) : q < p}) = n}
    IN  IF cut = {} THEN s ELSE SubSeq(s, 1, (CHOOSE p \in cut : TRUE) - 1)

IsPrefix(a, b) == Len(a) <= Len(b) /\ a = SubSeq(b, 1, Len(a))

RECURSIVE Text(_)
RECURSIVE Flat(_)
\* the texts of the values vs, one after the other
Flat(vs) == IF vs = <<>> THEN <<>> ELSE Text(Head(vs)) \o Flat(Tail(vs))

RECURSIVE Between(_, _)
\* the values vs with sep between each two
Between(vs, sep) ==
    IF Len(vs) <= 1 THEN vs ELSE <<Head(vs), sep>> \o Between(Tail(vs), sep)

Mapped(vs, f) == [j \in 1..Len(vs) |-> Apply(f, vs[j])]

\* the parts a combinator renders, in order
Parts(v) ==
    CASE v.k = "concat" -> v.iter
      [] v.k = "concat_map" -> Mapped(v.iter, v.map)
      [] v.k = "concat_tuple" -> v.tuple
      [] v.k = "join" -> Between(v.iter, v.sep)
      [] v.k = "join_map" -> Between(Mapped(v.iter, v.map), v.sep)
      [] v.k = "join_tuple" -> Between(v.tuple, v.sep)
      [] v.k = "infix" -> <<v.left, v.value, v.right>>
      [] v.k = "repeat" -> [j \in 1..v.n |-> v.value]

Text(v) ==
    CASE v.k = "str" -> v.s
      [] v.k = "char" -> EncodeUtf8(v.c)
      [] v.k = "cyc" -> v.s
      [] v.k = "truncate_chars" -> FirstChars(Text(v.value), v.len)
      [] OTHER -> Flat(Parts(v))

OnceKinds == {"concat_once", "concat_map_once", "join_once", "join_map_once"}
ManyKinds == {"concat", "concat_map", "concat_tuple", "join", "join_map",
              "join_tuple", "infix", "repeat"}

\* the repeatable combinator over the same items
Repeatable(v, iter) ==
    CASE v.k = "concat_once" -> concat(iter)
      [] v.k = "concat_map_once" -> concat_map(iter, v.map)
      [] v.k = "join_once" -> join(iter, v.sep)
      [] v.k = "join_map_once" -> join_map(iter, v.sep, v.map)

RECURSIVE HasText(_)
\* v renders the same text at every render: no slot, no Cell inside it
HasText(v) ==
    IF v.k = "truncate_chars" THEN HasText(v.value)
    ELSE v.k \in {"str", "char"} \cup ManyKinds

HasCyc(iter) == \E j \in DOMAIN iter : iter[j].k = "cyc"

(***************************************************************************)
(* C1: a successful render of truncate_chars(inner, N) leaves in the sink  *)
(* exactly the first min(N, chars of T) characters of T, the text of       *)
(* inner: nothing for N = 0, all of T for N at least its length.           *)
(***************************************************************************)
C1_TruncateWritesFirstChars ==
    prog.k = "truncate_chars" /\ HasText(prog.value) =>
        \A j \in DOMAIN outs :
            outs[j].res = "ok" =>
                outs[j].out = FirstChars(Text(prog.value), prog.len)

\* a text of several fragments cut inside its second, after a multi-byte char
C1_Witness ==
    /\ prog.k = "truncate_chars"
    /\ prog.value.k = "concat_tuple"
    /\ outs # <<>>
    /\ outs[1].res = "ok"
    /\ Len(outs[1].log) = 2
    /\ Len(outs[1].out) < Len(Text(prog.value))
    /\ outs[1].out[Len(outs[1].out)] >= 128
    /\ NumChars(outs[1].out) = prog.len

(***************************************************************************)
(* C2: the first render of a single-use wrapper writes what the repeatable *)
(* combinator over the same items writes, every later render of it writes  *)
(* nothing.                                                                *)
(***************************************************************************)
C2_SingleUseLaw ==
    /\ prog.k \in {"concat", "concat_map", "join", "join_map"} =>
            \A j \in DOMAIN outs :
                outs[j].res = "ok" => outs[j].out = Text(prog)
    /\ prog.k \in OnceKinds /\ outs # <<>> =>
        /\ outs[1].res = "ok" /\ ~HasCyc(takes[1].iter) =>
                outs[1].out = Text(Repeatable(prog, takes[1].iter))
        /\ \A j \in 2..Len(outs) : outs[j].out = <<>>

\* a joined single-use wrapper over two items, rendered twice
C2_Witness ==
    /\ prog.k = "join_map_once"
    /\ Len(outs) = 2
    /\ Len(takes[1].iter) = 2
    /\ ~HasCyc(takes[1].iter)
    /\ outs[1].res = "ok"
    /\ outs[1].out # <<>>
    /\ outs[2].out = <<>>

(***************************************************************************)
(* C3: a render of the wrapper made while its producer is being driven by  *)
(* the wrapper's first render finds the slot empty, writes nothing and     *)
(* succeeds; the producer is extracted once; the outer render writes what  *)
(* it would with the nested render producing the empty text.               *)
(***************************************************************************)
C3_ReentrantRenderIsEmpty ==
    /\ \A j \in 2..Len(takes) : ~takes[j].some
    /\ stack # <<>> /\ Top.pc \in NextPcs /\ ret # "none" =>
            /\ ret = "ok"
            /\ sinks[Len(sinks)].buf = Head(Top.iter).s
    /\ prog.k \in OnceKinds /\ outs # <<>> /\ outs[1].res = "ok" =>
            outs[1].out = Text(Repeatable(prog, takes[1].iter))

\* the producer of concat_once_cycle, rendered: "X"
C3_Witness ==
    /\ prog.k = "concat_once"
    /\ Len(outs) = 1
    /\ takes = <<Some(<<Cyc(<<88>>)>>), None>>
    /\ outs[1].res = "ok"
    /\ outs[1].out = <<88>>

(***************************************************************************)
(* C4: over all the render calls on a slot, nested or in sequence, at most *)
(* one take obtains the payload, and from then on the slot is empty.       *)
(***************************************************************************)
C4_AtMostOneTake ==
    /\ Cardinality({j \in DOMAIN takes : takes[j].some}) <= 1
    /\ (\E j \in DOMAIN takes : takes[j].some) => once = None

\* three takes on one slot: the first render, a nested one, a later one
C4_Witness ==
    /\ Len(takes) = 3
    /\ takes[1].some
    /\ HasCyc(takes[1].iter)
    /\ Len(outs) = 2
    /\ once = None

(***************************************************************************)
(* C5: what Writer::write_str forwards of a fragment is the encoding of    *)
(* its first k characters, k = min(remaining, characters in the fragment): *)
(* the cut falls on a character boundary.                                  *)
(***************************************************************************)
C5_CutOnCharBoundary ==
    \A j \in DOMAIN wlog :
        wlog[j].op = "write_str" /\ wlog[j].fwd # <<>> =>
            /\ wlog[j].fwd = <<FirstChars(wlog[j].s, wlog[j].rem)>>
            /\ NumChars(wlog[j].fwd[1]) = Min(wlog[j].rem, NumChars(wlog[j].s))
            /\ \/ Len(wlog[j].fwd[1]) = Len(wlog[j].s)
               \/ IsCharStart(wlog[j].s[Len(wlog[j].fwd[1]) + 1])

\* a fragment cut between a three-byte character and a two-byte one
C5_Witness ==
    \E j \in DOMAIN wlog :
        /\ wlog[j].op = "write_str"
        /\ wlog[j].fwd # <<>>
        /\ Len(wlog[j].fwd[1]) < Len(wlog[j].s)
        /\ wlog[j].fwd[1][Len(wlog[j].fwd[1])] >= 128
        /\ wlog[j].s[Len(wlog[j].fwd[1]) + 1] >= 192

(***************************************************************************)
(* C6: within one render a budget that has reached 0 stays 0, and every    *)
(* fragment the Writer gets from then on (str, char, formatted arguments)  *)
(* is answered Ok without a call on the sink behind it; a str with more    *)
(* characters than the budget spends it and loses its remainder.           *)
(***************************************************************************)
C6_SpentBudgetDiscards ==
    /\ \A j \in DOMAIN wlog :
        /\ wlog[j].left <= wlog[j].rem
        /\ wlog[j].rem = 0 =>
                wlog[j].left = 0 /\ wlog[j].fwd = <<>> /\ wlog[j].res = "ok"
        /\ wlog[j].op = "write_str" /\ NumChars(wlog[j].s) > wlog[j].rem =>
                /\ wlog[j].left = 0
                /\ \/ wlog[j].rem = 0 /\ wlog[j].fwd = <<>>
                   \/ /\ wlog[j].fwd # <<>>
                      /\ NumChars(wlog[j].fwd[1]) = wlog[j].rem
    /\ \A a, b \in DOMAIN wlog :
        /\ a < b
        /\ wlog[a].w = wlog[b].w
        /\ wlog[a].op # "write_fmt"
        /\ wlog[b].op # "write_fmt"
        /\ wlog[a].left = 0
        => wlog[b].rem = 0
    /\ prog.k = "truncate_chars" /\ target = "prog" =>
            Len(log) = Cardinality({j \in DOMAIN wlog :
                                        wlog[j].w = 2 /\ wlog[j].fwd # <<>>})

\* a str spends the budget and a later, non-empty str is dropped
C6_Witness ==
    \E a, b \in DOMAIN wlog :
        /\ a < b
        /\ wlog[a].op = "write_str"
        /\ wlog[a].rem > 0
        /\ NumChars(wlog[a].s) > wlog[a].rem
        /\ wlog[b].op = "write_str"
        /\ wlog[b].s # <<>>
        /\ wlog[b].rem = 0
        /\ wlog[b].fwd = <<>>
        /\ Len(log) = 1

(***************************************************************************)
(* C7: a render of truncate_chars(inner, N) in which the sink refuses no   *)
(* write returns Ok, for every N, also when the text was cut.              *)
(***************************************************************************)
C7_TruncationIsNotAnError ==
    /\ prog.k = "truncate_chars" =>
        \A j \in DOMAIN outs :
            (\A c \in DOMAIN outs[j].log : outs[j].log[c].ok) =>
                outs[j].res = "ok"
    /\ \A j \in DOMAIN wlog :
            wlog[j].res = "err" => log # <<>> /\ ~log[Len(log)].ok

\* a text of five characters cut to two, Ok
C7_Witness ==
    /\ prog.k = "truncate_chars"
    /\ prog.len = 2
    /\ HasText(prog.value)
    /\ NumChars(Text(prog.value)) = 5
    /\ outs # <<>>
    /\ outs[1].res = "ok"
    /\ NumChars(outs[1].out) = 2

(***************************************************************************)
(* C8: a render of a single-use wrapper whose slot is already empty        *)
(* returns Ok and makes no call on the sink.                               *)
(***************************************************************************)
C8_ConsumedIsNotAnError ==
    prog.k \in OnceKinds =>
        /\ \A j \in 2..Len(outs) : outs[j].res = "ok" /\ outs[j].log = <<>>
        /\ stack = <<>> /\ target = "prog" /\ Len(outs) >= 2 => log = <<>>

\* a wrapper that wrote its items in the first render, rendered again
C8_Witness ==
    /\ prog.k \in OnceKinds
    /\ Len(outs) = 2
    /\ outs[1].res = "ok"
    /\ Len(outs[1].log) >= 2
    /\ outs[2].res = "ok"
    /\ once = None

(***************************************************************************)
(* C9: when the sink refuses a write, the render returns that Err, the     *)
(* refused write is the last call on the sink in that render, and no       *)
(* further item or sibling is rendered: the Err is on its way up from the  *)
(* refused write until the render has returned it.                         *)
(***************************************************************************)
C9_FirstSinkErrorEndsRender ==
    /\ \A j \in DOMAIN log : ~log[j].ok => j = Len(log)
    /\ stack # <<>> /\ log # <<>> /\ ~log[Len(log)].ok => ret = "err"
    /\ \A j \in DOMAIN outs :
            outs[j].res = "err" <=>
                \E c \in DOMAIN outs[j].log : ~outs[j].log[c].ok

\* the sink refused a write inside the first quoted item: the Err is back in
\* the loop of concat_map with an item left, which is never rendered
C9_Witness ==
    /\ stack # <<>>
    /\ Top.node.k = "concat_map"
    /\ Top.iter # <<>>
    /\ ret = "err"
    /\ Len(log) >= 2
    /\ ~log[Len(log)].ok

\* the part of prog a call on the sink was made for
PartOf(v, e) ==
    IF v.k \in {"join", "join_map"}
    THEN IF e.pc = "sep" THEN 2 * e.i - 2 ELSE 2 * e.i - 1
    ELSE e.i

RECURSIVE PartText(_, _, _)
\* what the calls of lg made for part p have written
PartText(lg, v, p) ==
    IF lg = <<>> THEN <<>>
    ELSE (IF Head(lg).ok /\ PartOf(v, Head(lg)) = p THEN Head(lg).s ELSE <<>>)
            \o PartText(Tail(lg), v, p)

(***************************************************************************)
(* C10: the parts of a multi-child combinator reach the sink strictly left *)
(* to right: the calls made for part p come before those for part p + 1,   *)
(* all of part p is written before part p + 1 starts, and for join the     *)
(* separator is the part between two items.                                *)
(***************************************************************************)
C10_LeftToRight ==
    prog.k \in ManyKinds =>
        /\ \A j \in DOMAIN log : PartOf(prog, log[j]) \in DOMAIN Parts(prog)
        /\ \A a, b \in DOMAIN log :
                a < b => PartOf(prog, log[a]) <= PartOf(prog, log[b])
        /\ \A p \in DOMAIN Parts(prog) :
            /\ IsPrefix(PartText(log, prog, p), Text(Parts(prog)[p]))
            /\ (\E j \in DOMAIN log : PartOf(prog, log[j]) > p) =>
                    PartText(log, prog, p) = Text(Parts(prog)[p])

\* two quoted items joined: three calls, the separator, three calls
C10_Witness ==
    /\ prog.k = "join_map"
    /\ Len(prog.iter) = 2
    /\ Len(log) = 7
    /\ log[7].ok
    /\ PartOf(prog, log[4]) = 2
    /\ stack = <<>>

(***************************************************************************)
(* C11: the budget of truncate_chars(inner, N) is N at the start of every  *)
(* render and nothing of it is carried from one render to the next: every  *)
(* Writer starts with rem_len = N, and renders of the same value into      *)
(* fresh sinks that the sinks did not refuse give the same output.         *)
(***************************************************************************)
C11_BudgetPerRender ==
    prog.k = "truncate_chars" =>
        /\ \A a, b \in DOMAIN outs :
                /\ HasText(prog.value)
                /\ outs[a].res = "ok"
                /\ outs[b].res = "ok"
                => outs[a].out = outs[b].out
        /\ \A j \in DOMAIN wlog :
                (\A h \in 1..(j - 1) : wlog[h].w # wlog[j].w) =>
                    wlog[j].rem = (IF wlog[j].w = 2 THEN prog.len
                                   ELSE prog.value.len)

\* a text cut to two characters in a first render and cut to the same two
\* in a second, whose Writer started with a budget of two again
C11_Witness ==
    /\ prog.k = "truncate_chars"
    /\ prog.len = 2
    /\ HasText(prog.value)
    /\ NumChars(Text(prog.value)) > 2
    /\ Len(outs) = 2
    /\ outs[1].res = "ok"
    /\ outs[2].res = "ok"
    /\ NumChars(outs[1].out) = 2
    /\ outs[2].out = outs[1].out
    /\ wlog # <<>>
    /\ wlog[1].rem = 2
    /\ wlog[1].fwd # <<>>

\* the fragments a render wrote: the str of each call on the sink, in order
Fragments(lg) == [j \in DOMAIN lg |-> lg[j].s]

PlainKinds ==
    {"concat", "concat_map", "concat_tuple", "join", "join_map", "join_tuple",
     "cond_or", "cond_with", "cond_with_option", "repeat", "repeat_with",
     "to_ascii_uppercase", "to_ascii_lowercase", "infix"}

\* v calls a closure whose result depends on a Cell the closure sets
CallsCounting(v) ==
    \/ v.k = "repeat_with" /\ v.f.fn # "constant"
    \/ v.k = "cond_with" /\ v.make_value.some /\ v.make_value.f.fn # "constant"
    \/ v.k = "cond_with_option" /\ v.make_value.fn # "constant"

(***************************************************************************)
(* C12, as stated: every plain combinator writes the same sequence of      *)
(* fragments in every render (renders the sinks did not refuse), whatever  *)
(* it holds.                                                               *)
(***************************************************************************)
C12_AsStated ==
    prog.k \in PlainKinds =>
        \A a, b \in DOMAIN outs :
            outs[a].res = "ok" /\ outs[b].res = "ok" =>
                Fragments(outs[a].log) = Fragments(outs[b].log)

(***************************************************************************)
(* C12, amended: every plain combinator writes the same sequence of        *)
(* fragments in every render, for any number of renders and whatever the   *)
(* sinks, provided the closures it calls return the same value at every    *)
(* call; with a closure that counts in a Cell (repeat_with, cond_with,     *)
(* cond_with_option) a render writes what the closure returns then.        *)
(***************************************************************************)
C12_SameFragmentsEveryRender ==
    prog.k \in PlainKinds /\ ~CallsCounting(prog) =>
        /\ counter = 1
        /\ \A a, b \in DOMAIN outs :
                outs[a].res = "ok" /\ outs[b].res = "ok" =>
                    Fragments(outs[a].log) = Fragments(outs[b].log)

\* repeat_with(2, || "éb") rendered twice: "éb", "éb" both times
C12_Witness ==
    /\ prog.k = "repeat_with"
    /\ prog.n = 2
    /\ ~CallsCounting(prog)
    /\ Len(outs) = 2
    /\ outs[1].res = "ok"
    /\ outs[2].res = "ok"
    /\ Len(outs[1].log) = 2
    /\ Fragments(outs[2].log) = Fragments(outs[1].log)

(***************************************************************************)
(* C13: in the concatenation of truncate_chars(x, N) and a sibling y after *)
(* it, a render the sink refuses nothing of returns Ok and writes the      *)
(* first min(N, length of x) characters of x and then all of y; while y is *)
(* rendered no Writer stands between it and the sink.                      *)
(***************************************************************************)
C13_SiblingsAfterTruncation ==
    /\ prog.k \in {"concat", "concat_tuple"}
    /\ Len(Parts(prog)) = 2
    /\ Parts(prog)[1].k = "truncate_chars"
    => LET x == Parts(prog)[1].value
           N == Parts(prog)[1].len
           y == Parts(prog)[2]
       IN  /\ \A j \in DOMAIN outs :
                (\A c \in DOMAIN outs[j].log : outs[j].log[c].ok) =>
                    /\ outs[j].res = "ok"
                    /\ outs[j].out = FirstChars(Text(x), N) \o Text(y)
           /\ stack # <<>> /\ stack[1].i = 2 => Len(sinks) = 1

\* "a€é" cut to two characters, and then the sibling "éb" in full
C13_Witness ==
    /\ prog.k = "concat_tuple"
    /\ Len(prog.tuple) = 2
    /\ prog.tuple[1].k = "truncate_chars"
    /\ prog.tuple[1].len = 2
    /\ NumChars(Text(prog.tuple[1].value)) = 3
    /\ outs # <<>>
    /\ outs[1].res = "ok"
    /\ outs[1].out = <<97, 226, 130, 172, 195, 169, 98>>

(***************************************************************************)
(* C14, as stated: no operation gives a second wrapper able to render the  *)
(* payload: a wrapper made from a single-use wrapper never holds it.       *)
(***************************************************************************)
C14_AsStated ==
    copy.made =>
        /\ ~copy.once.some
        /\ \A j \in DOMAIN copy_takes : ~copy_takes[j].some

(***************************************************************************)
(* C14, amended: a single-use wrapper is duplicable when its iterator is   *)
(* (Clone, never Copy).  The clone is a second wrapper with a slot of its  *)
(* own, holding a clone of what the slot cloned held then: the payload if  *)
(* it had not been taken, nothing if it had.  Each of the two slots gives  *)
(* its payload to at most one render, and a take from one leaves the       *)
(* other as it is.                                                         *)
(***************************************************************************)
C14_CloneHasOwnSlot ==
    copy.made =>
        LET payload == IF takes # <<>> THEN takes[1].iter ELSE once.iter
        IN  /\ once.some <=> takes = <<>>
            /\ copy.once.some <=> copy.at = 0 /\ copy_takes = <<>>
            /\ copy.once.some => copy.once.iter = payload
            /\ \A j \in DOMAIN copy_takes :
                    copy_takes[j].some <=> j = 1 /\ copy.at = 0
            /\ copy_takes # <<>> /\ copy.at = 0 => copy_takes[1].iter = payload
            /\ \A j \in DOMAIN copy_outs :
                    /\ copy_outs[j].res = "ok"
                    /\ copy_outs[j].out =
                            IF j = 1 /\ copy.at = 0
                            THEN Text(Repeatable(prog, payload))
                            ELSE <<>>

\* a wrapper cloned before its render: the wrapper and its clone have both
\* rendered the two items
C14_Witness ==
    /\ copy.made
    /\ copy.at = 0
    /\ Len(outs) = 1
    /\ Len(copy_outs) = 1
    /\ Len(takes[1].iter) = 2
    /\ outs[1].out # <<>>
    /\ copy_outs[1].out = outs[1].out
    /\ once = None
    /\ copy.once = None

\* the forms of a concatenation of the items vs
ConcatForms(vs) == {concat(vs), concat_tuple(vs), concat_macro(vs)}

(***************************************************************************)
(* C16, as stated: a concatenation of zero items renders the empty text    *)
(* with a success result, and one of exactly one item renders what the     *)
(* item renders alone, for concat, concat_tuple and concat!.               *)
(***************************************************************************)
C16_AsStated ==
    /\ prog \in ConcatForms(<<>>) =>
            \A j \in DOMAIN outs :
                outs[j].res = "ok" /\ outs[j].out = <<>>
    /\ \A x \in Leaves :
            prog \in ConcatForms(<<x>>) =>
                \A j \in DOMAIN outs :
                    /\ Fragments(outs[j].log) = <<Text(x)>>
                    /\ outs[j].res = "ok" => outs[j].out = Text(x)

(***************************************************************************)
(* C16, amended: concat over an iterator and concat_tuple of zero items    *)
(* render the empty text with a success result and without a call on the   *)
(* sink.  concat!() is the empty str: it renders the empty text with one   *)
(* write of an empty fragment, and its result is the sink's answer to that *)
(* write.  A concatenation of exactly one item, in each of the three       *)
(* forms, renders what the item renders alone: the same fragment, the same *)
(* text and the same result.                                               *)
(***************************************************************************)
C16_ConcatIdentity ==
    /\ prog \in {concat(<<>>), concat_tuple(<<>>)} =>
            /\ log = <<>>
            /\ \A j \in DOMAIN outs :
                    /\ outs[j].res = "ok"
                    /\ outs[j].out = <<>>
                    /\ outs[j].log = <<>>
    /\ prog = concat_macro(<<>>) =>
            \A j \in DOMAIN outs :
                /\ outs[j].out = <<>>
                /\ Fragments(outs[j].log) = <<<<>>>>
                /\ outs[j].res = "ok" <=> outs[j].log[1].ok
    /\ \A x \in Leaves :
            prog \in ConcatForms(<<x>>) =>
                \A j \in DOMAIN outs :
                    /\ Fragments(outs[j].log) = <<Text(x)>>
                    /\ outs[j].res = "ok" <=> outs[j].log[1].ok
                    /\ outs[j].out =
                            IF outs[j].res = "ok" THEN Text(x) ELSE <<>>

\* concat!() rendered into a sink that refuses the write of the empty str,
\* and then into one that takes it
C16_Witness ==
    /\ prog = concat_macro(<<>>)
    /\ Len(outs) = 2
    /\ outs[1].res = "err"
    /\ outs[2].res = "ok"
    /\ Len(outs[1].log) = 1
    /\ outs[2].out = <<>>

JoinKinds == {"join", "join_map", "join_tuple", "join_once", "join_map_once"}

\* the items a join renders (a single-use one: in its first render)
Joined(v) ==
    CASE v.k = "join" -> v.iter
      [] v.k = "join_map" -> Mapped(v.iter, v.map)
      [] v.k = "join_tuple" -> v.tuple
      [] v.k = "join_once" -> takes[1].iter
      [] v.k = "join_map_once" -> Mapped(takes[1].iter, v.map)

\* the part a call on the sink was made for: item m is part 2m - 1, the
\* separator after it part 2m
JoinPart(v, e) ==
    IF v.k = "join_tuple" THEN e.i
    ELSE IF e.pc = "sep" THEN 2 * e.i - 2 ELSE 2 * e.i - 1

(***************************************************************************)
(* C17: a join of k items with separator s renders item 1 and then, for    *)
(* each later item, s and the item: max(k - 1, 0) separators are written,  *)
(* each right after an item and right before the next one, none first or   *)
(* last and none for k <= 1; for join, join_map, join_tuple and the first  *)
(* render of join_once (and join_map_once).                                *)
(***************************************************************************)
C17_SeparatorsBetweenItems ==
    prog.k \in JoinKinds =>
        \A j \in DOMAIN outs :
            (prog.k \in OnceKinds => j = 1) =>
                LET lg == outs[j].log
                    k == Len(Joined(prog))
                    part(a) == JoinPart(prog, lg[a])
                    seps == {a \in DOMAIN lg : part(a) % 2 = 0}
                IN  /\ Cardinality(seps) <= (IF k >= 1 THEN k - 1 ELSE 0)
                    /\ \A a \in seps :
                        /\ lg[a].s = Text(prog.sep)
                        /\ part(a) \in 2..(2 * k - 2)
                        /\ a > 1 /\ part(a - 1) = part(a) - 1
                        /\ a < Len(lg) => part(a + 1) = part(a) + 1
                        /\ lg[a].ok => a < Len(lg)
                        /\ \A b \in seps : part(b) = part(a) => b = a
                    /\ outs[j].res = "ok" =>
                        /\ Cardinality(seps) = (IF k >= 1 THEN k - 1 ELSE 0)
                        /\ outs[j].out = Flat(Between(Joined(prog), prog.sep))

\* the first render of a join_once over two items: item, '€', item; the
\* second render writes nothing
C17_Witness ==
    /\ prog.k = "join_once"
    /\ Len(outs) = 2
    /\ Len(takes[1].iter) = 2
    /\ outs[1].res = "ok"
    /\ Len(outs[1].log) = 3
    /\ outs[1].log[2].s = EncodeUtf8(8364)
    /\ outs[2].log = <<>>

\* what each of the arguments vs renders alone
ArgTexts(vs) == [j \in DOMAIN vs |-> Text(vs[j])]

(***************************************************************************)
(* C18: concat! has no length limit: for any number of arguments, also     *)
(* more than the TupleMax a tuple supports (the rest is then nested into   *)
(* an inner concatenation), the text rendered is the renderings of all the *)
(* arguments in argument order, each exactly once.                         *)
(***************************************************************************)
C18_MacroHasNoLengthLimit ==
    \A a \in MacroArgs :
        prog = concat_macro(a) =>
            /\ a # <<>> => IsPrefix(Fragments(log), ArgTexts(a))
            /\ \A j \in DOMAIN outs :
                /\ a # <<>> => IsPrefix(Fragments(outs[j].log), ArgTexts(a))
                /\ outs[j].res = "ok" =>
                    /\ outs[j].out = Flat(a)
                    /\ a # <<>> => Fragments(outs[j].log) = ArgTexts(a)

\* more arguments than a tuple holds: the last item of the tuple is the
\* nested concatenation of the rest, and all of them have been written
C18_Witness ==
    /\ prog.k = "concat_tuple"
    /\ Len(prog.tuple) = TupleMax
    /\ prog.tuple[TupleMax].k = "concat_tuple"
    /\ Len(outs) = 1
    /\ outs[1].res = "ok"
    /\ Len(outs[1].log) > TupleMax
    /\ outs[1].out = Flat(prog.tuple)

RECURSIVE Written(_)
\* the calls made on the sink in the first m finished renders
Written(m) == IF m = 0 THEN 0 ELSE Written(m - 1) + Len(outs[m].log)

(***************************************************************************)
(* C20: a render of repeat(v, n) writes the rendering of v exactly n times *)
(* in a row (nothing for n = 0); a render of repeat_with(n, f) invokes f   *)
(* exactly n times, and writes each result before the next invocation: a   *)
(* counting callable that starts at 1 renders "123" with n = 3.            *)
(***************************************************************************)
C20_RepeatWritesNTimes ==
    /\ prog.k = "repeat" =>
        LET all == [i \in 1..prog.n |-> Text(prog.value)]
        IN  \A j \in DOMAIN outs :
                /\ IsPrefix(Fragments(outs[j].log), all)
                /\ outs[j].res = "ok" =>
                    /\ Fragments(outs[j].log) = all
                    /\ outs[j].out = Flat([i \in 1..prog.n |-> prog.value])
    /\ prog.k = "repeat_with" /\ prog.f.fn = "constant" =>
        \A j \in DOMAIN outs :
            outs[j].res = "ok" =>
                Fragments(outs[j].log) = [i \in 1..prog.n |-> Text(prog.f.value)]
    /\ prog.k = "repeat_with" /\ prog.f = Counting =>
        LET invoked == counter - 1
            written == Written(Len(outs)) + (IF stack # <<>> THEN Len(log) ELSE 0)
        IN  /\ invoked - written \in {0, 1}
            /\ invoked - written = 1 <=> Len(stack) = 2
            /\ \A j \in DOMAIN outs :
                /\ Len(outs[j].log) <= prog.n
                /\ \A i \in DOMAIN outs[j].log :
                        outs[j].log[i].s = Itoa(Written(j - 1) + i)
                /\ outs[j].res = "ok" =>
                    /\ Len(outs[j].log) = prog.n
                    /\ outs[j].out =
                        Flat([i \in 1..prog.n |-> I32(Written(j - 1) + i)])

\* the counting callable, n = 3: the first render has written "123"
C20_Witness ==
    /\ prog = repeat_with(3, Counting)
    /\ Len(outs) = 1
    /\ outs[1].res = "ok"
    /\ outs[1].out = <<49, 50, 51>>
    /\ counter = 4

(***************************************************************************)
(* C21: for every string s, a render of to_lowercase(s) produces exactly   *)
(* the text that the whole-string lowercase conversion of s produces       *)
(* (str::to_lowercase), although each char is converted on its own.        *)
(***************************************************************************)
C21_LowercaseAsWholeString ==
    prog.k = "to_lowercase" =>
        \A j \in DOMAIN outs :
            outs[j].res = "ok" =>
                outs[j].out = StrToLowercase(Text(prog.value))

\* a frame of a single-use wrapper that has the producer and drives it
Driving(fr) == fr.node.k \in OnceKinds /\ fr.pc # "start"

\* a step that empties the slot c (c2 after the step), with takes tk, tk2
Extraction(c, c2, tk, tk2) ==
    /\ tk2 = Append(tk, c)
    /\ stack # <<>>
    /\ Top.node.k \in OnceKinds
    /\ Top.pc = "start"
    /\ Len(stack') = Len(stack)
    /\ Driving(stack'[Len(stack)])
    /\ stack'[Len(stack)].iter = c.iter
    /\ stack'[Len(stack)].i = 0
    /\ log' = log
    /\ sinks' = sinks

(***************************************************************************)
(* C22: a first render of a single-use wrapper empties the slot in one     *)
(* step, taking the whole producer, before it pulls the first item; in     *)
(* every state in which the producer is driven the slot is empty already,  *)
(* an emptied slot stays empty, and an extraction attempt made during the  *)
(* drive finds nothing.                                                    *)
(***************************************************************************)
C22_TakeBeforeDrive ==
    /\ [](\A j \in DOMAIN stack :
            Driving(stack[j]) =>
                ~(IF target = "copy" THEN copy.once ELSE once).some)
    /\ [][/\ once.some /\ ~once'.some => Extraction(once, once', takes, takes')
          /\ ~once.some => ~once'.some
          /\ copy.made /\ copy.once.some /\ ~copy'.once.some =>
                Extraction(copy.once, copy'.once, copy_takes, copy_takes')
          /\ copy.made /\ ~copy.once.some => ~copy'.once.some
          /\ (\E j \in DOMAIN stack : Driving(stack[j])) =>
                /\ takes' # takes => takes' = Append(takes, None)
                /\ copy_takes' # copy_takes =>
                        copy_takes' = Append(copy_takes, None)]_vars

\* the producer is driven, one item written and one left, a re-entrant
\* render has tried the slot and found it empty
C22_Witness ==
    /\ Len(stack) = 1
    /\ Driving(Top)
    /\ Top.iter # <<>>
    /\ Len(log) = 1
    /\ once = None
    /\ Len(takes) = 2
    /\ takes[1].some
    /\ ~takes[2].some

RECURSIVE EmittedTo(_, _)
\* the text the inner renderable has written to Writer id, in the calls wl
EmittedTo(wl, id) ==
    IF wl = <<>> THEN <<>>
    ELSE (IF Head(wl).w = id /\ Head(wl).op # "write_fmt" THEN Head(wl).s
          ELSE <<>>) \o EmittedTo(Tail(wl), id)

\* the text of the calls lg made on the caller's sink
Forwarded(lg) == ConcatSeqs(Fragments(lg))

\* a render of prog is under way and its Writer, sinks[2], is alive
WriterAlive ==
    /\ prog.k = "truncate_chars"
    /\ prog.len # UsizeMax
    /\ Len(sinks) >= 2

(***************************************************************************)
(* C23: for a budget N below usize::MAX, at every point of a render of     *)
(* truncate_chars(inner, N): the remaining budget plus the number of chars *)
(* forwarded to the real sink so far is N, the remaining budget never      *)
(* increases, and the real sink has received exactly the first min(N, c)   *)
(* chars of the c chars inner has emitted so far.                          *)
(***************************************************************************)
C23_BudgetAccounting ==
    /\ [](WriterAlive =>
            /\ sinks[2].kind = "writer"
            /\ sinks[2].rem_len + NumChars(Forwarded(log)) = prog.len
            /\ Forwarded(log) = FirstChars(EmittedTo(wlog, 2), prog.len)
            /\ (\A j \in DOMAIN log : log[j].ok) =>
                    sinks[1].buf = FirstChars(EmittedTo(wlog, 2), prog.len))
    /\ [][WriterAlive /\ WriterAlive' => sinks'[2].rem_len <= sinks[2].rem_len]_vars

\* "éb" of a tuple has passed a Writer of budget 3: one char is left
C23_Witness ==
    /\ WriterAlive
    /\ prog.len = 3
    /\ sinks[2].rem_len = 1
    /\ sinks[1].buf = <<195, 169, 98>>
    /\ Len(stack) = 2
    /\ Top.iter # <<>>

(***************************************************************************)
(* C24: what truncate_chars writes depends on the text of the inner        *)
(* renderable and on N only, not on how the text is split into fragments:  *)
(* for every delivery of one text as str writes, char writes and empty     *)
(* writes, the real sink receives the same text, the first N chars of it.  *)
(***************************************************************************)
C24_FragmentationIndependent ==
    /\ prog.k = "truncate_chars"
    /\ prog.len # UsizeMax
    /\ prog.value.k = "concat_tuple"
    /\ \A j \in DOMAIN prog.value.tuple : prog.value.tuple[j].k \in {"str", "char"}
    /\ Delivers(prog.value.tuple)
    => /\ Forwarded(log) = FirstChars(EmittedTo(wlog, 2), prog.len)
       /\ IsPrefix(EmittedTo(wlog, 2), Utf8(DeliveredText))
       /\ \A j \in DOMAIN outs :
            outs[j].res = "ok" =>
                outs[j].out = FirstChars(Utf8(DeliveredText), prog.len)

\* 'a', then "" and then "€é", cut to two chars: "a€" as for the one str
C24_Witness ==
    /\ prog = truncate_chars(concat_tuple(<<Chr(97), Str(<<>>),
                                            Str(Utf8(<<8364, 233>>))>>), 2)
    /\ Len(outs) = 1
    /\ outs[1].res = "ok"
    /\ outs[1].out = Utf8(<<97, 8364>>)
    /\ Len(outs[1].log) = 2

\* direct renders of the nested wrapper, finished or under way
InnerRenders ==
    Len(inner_outs) + (IF target = "inner" /\ stack # <<>> THEN 1 ELSE 0)

(***************************************************************************)
(* C25: a render of truncate_chars(inner, 0) returns Ok without invoking   *)
(* inner at all: no producer and no callable inside it is driven, and a    *)
(* single-use wrapper nested in it keeps its payload, so a later direct    *)
(* render of that wrapper still writes its full output.                    *)
(***************************************************************************)
C25_ZeroBudgetSkipsInner ==
    prog.k = "truncate_chars" /\ prog.len = 0 =>
        /\ \A j \in DOMAIN outs :
                outs[j].res = "ok" /\ outs[j].out = <<>> /\ outs[j].log = <<>>
        /\ target = "prog" => Len(stack) <= 1 /\ Len(sinks) = 1
        /\ prog.value.k = "repeat_with" => counter = 1
        /\ prog \in Nested =>
            /\ Len(takes) <= InnerRenders
            /\ Len(takes) >= Len(inner_outs)
            /\ once.some <=> takes = <<>>
            /\ takes # <<>> => takes[1].some
            /\ \A j \in DOMAIN inner_outs :
                    inner_outs[j].res = "ok" =>
                        inner_outs[j].out =
                            IF j = 1
                            THEN Text(Repeatable(prog.value, takes[1].iter))
                            ELSE <<>>

\* truncate_chars(&w, 0) has been rendered, and now w itself is: it got the
\* two items and has written the first
C25_Witness ==
    /\ prog \in Nested
    /\ prog.len = 0
    /\ Len(outs) = 1
    /\ target = "inner"
    /\ stack # <<>>
    /\ Len(takes) = 1
    /\ Len(takes[1].iter) = 2
    /\ Len(log) = 1
    /\ log[1].ok

(***************************************************************************)
(* C26: when the first render of a single-use wrapper fails because the    *)
(* sink refuses a write part-way, the payload is consumed all the same:    *)
(* the slot is empty afterwards, the items not yet written are lost, and   *)
(* every later render of the wrapper writes nothing and returns Ok.        *)
(***************************************************************************)
C26_FailedRenderConsumes ==
    prog.k \in OnceKinds /\ outs # <<>> /\ outs[1].res = "err" =>
        /\ once = None
        /\ takes[1].some
        /\ \A j \in 2..Len(takes) : ~takes[j].some
        /\ ~outs[1].log[Len(outs[1].log)].ok
        /\ IsPrefix(outs[1].out, Text(Repeatable(prog, takes[1].iter)))
        /\ \A j \in 2..Len(outs) :
                outs[j].res = "ok" /\ outs[j].out = <<>> /\ outs[j].log = <<>>
        /\ target = "prog" /\ Len(outs) >= 2 => log = <<>>

\* "éb" is written and the separator refused; the second render writes
\* nothing: the second item is lost
C26_Witness ==
    /\ prog.k = "join_once"
    /\ Len(outs) = 2
    /\ Len(takes[1].iter) = 2
    /\ outs[1].res = "err"
    /\ Len(outs[1].log) = 2
    /\ outs[1].out = <<195, 169, 98>>
    /\ outs[2].res = "ok"
    /\ outs[2].out = <<>>
    /\ once = None

(***************************************************************************)
(* C27: truncation filters nest as a minimum: for all budgets a and b and  *)
(* every inner x, a render of truncate_chars(truncate_chars(x, a), b)      *)
(* writes the text a render of truncate_chars(x, min(a, b)) writes.        *)
(***************************************************************************)
C27_NestedIsMinimum ==
    /\ prog.k = "truncate_chars"
    /\ prog.value.k = "truncate_chars"
    /\ HasText(prog.value)
    => \A j \in DOMAIN outs :
            outs[j].res = "ok" =>
                outs[j].out = FirstChars(Text(prog.value.value),
                                         Min(prog.value.len, prog.len))

\* "éb" and 'c' through a filter of one char inside a filter of two: "é";
\* the inner Writer has dropped 'c' and the outer one was never spent
C27_Witness ==
    /\ prog.k = "truncate_chars"
    /\ prog.value.k = "truncate_chars"
    /\ prog.value.value.k = "concat_tuple"
    /\ prog.value.len = 1
    /\ prog.len = 2
    /\ Len(outs) = 1
    /\ outs[1].res = "ok"
    /\ outs[1].out = <<195, 169>>
    /\ \E j \in DOMAIN wlog : wlog[j].w = 3 /\ wlog[j].rem = 0 /\ wlog[j].s = <<99>>

\* the writes Writer 2 got in the render whose calls wlog holds
WritesTo2 == {j \in DOMAIN wlog : wlog[j].w = 2 /\ wlog[j].op # "write_fmt"}

\* a render of truncate_chars(inner, N), N > 0, has returned, and the sink
\* refused nothing in it
FilterReturned ==
    /\ prog.k = "truncate_chars"
    /\ prog.len > 0
    /\ target = "prog"
    /\ stack = <<>>
    /\ outs # <<>>
    /\ \A j \in DOMAIN log : log[j].ok

(***************************************************************************)
(* C28: for N > 0 a spent budget does not end the render early: the filter *)
(* keeps driving inner, every remaining item of an inner producer is still *)
(* pulled and rendered into suppressed writes, and the render returns only *)
(* when inner has finished; a render of a truncation filter over a finite  *)
(* inner always terminates.                                                *)
(***************************************************************************)
C28_SpentBudgetDrivesOn ==
    /\ [](FilterReturned =>
            /\ outs[Len(outs)].res = "ok"
            /\ HasText(prog.value) => EmittedTo(wlog, 2) = Text(prog.value)
            /\ prog.value.k = "repeat_with" =>
                /\ Cardinality(WritesTo2) = prog.value.n
                /\ (\A j \in 1..(Len(outs) - 1) : outs[j].res = "ok") =>
                        counter = 1 + prog.value.n * Len(outs)
            /\ prog \in Nested =>
                /\ once = None
                /\ Len(outs) = 1 /\ inner_outs = <<>> =>
                    EmittedTo(wlog, 2) =
                        Text(Repeatable(prog.value, takes[1].iter))
            /\ \A j \in WritesTo2 :
                    wlog[j].rem = 0 => wlog[j].fwd = <<>> /\ wlog[j].res = "ok")
    /\ [](prog.k = "truncate_chars" /\ Len(stack) = 1 /\ Top.pc = "write" =>
            ret \in {"ok", "err"})
    /\ (prog.k = "truncate_chars" /\ stack # <<>>) ~> (stack = <<>>)

\* the counting callable, three times, through a filter of one char: "1" is
\* written, "2" and "3" are made and suppressed, the Cell holds 4
C28_Witness ==
    /\ FilterReturned
    /\ prog.value.k = "repeat_with"
    /\ prog.value.n = 3
    /\ prog.len = 1
    /\ Len(outs) = 1
    /\ outs[1].out = <<49>>
    /\ counter = 4
    /\ \E j \in WritesTo2 : wlog[j].rem = 0 /\ wlog[j].s = <<51>>

=============================================================================
